---- MODULE Spec2Model ----
(***************************************************************************)
(* Model of the backtesting engine: the limit order book, the simulation   *)
(* clock, the event bus, the risk manager, the tick store, the engine's    *)
(* run loop, the slippage models and the SMA strategy.                     *)
(*                                                                         *)
(* Prices are doubles in the source; the model draws them from a small     *)
(* range of integers, which keeps their order.  Volumes are uint64_t; the  *)
(* bounds below keep every sum far from 2^64.  Each component has its own  *)
(* specification; the other components' variables stay as constructed.     *)
(***************************************************************************)
EXTENDS Integers, Sequences, FiniteSets, TLC

\* ---------------------------------------------------------------- bounds
MaxPrice == 2      \* prices are 1..MaxPrice
MaxQty   == 2      \* order and removal quantities are 1..MaxQty
MaxCalls == 3      \* OrderBook calls made in one behaviour

Prices     == 1..MaxPrice
Quantities == 1..MaxQty   \* orders are sized at 1 or more
Sides      == {"BUY", "SELL"}
None       == "none"      \* std::nullopt

VARIABLES
    bids_,            \* OrderBook::bids_ : price -> BookLevel
    asks_,            \* OrderBook::asks_ : price -> BookLevel
    next_order_id_,   \* id given to the next order
    matching_algo_,   \* OrderBook::matching_algo_, set by the constructor
    book_calls,       \* number of OrderBook calls made so far
    book_call         \* the OrderBook call made by the last step: the
                      \* operation, its order and the fills it returned

bookVars == <<bids_, asks_, next_order_id_, matching_algo_, book_calls,
              book_call>>

\* enum class MatchingAlgorithm.
MatchingAlgorithm == {"PRICE_TIME", "PRO_RATA", "PRICE_SIZE_TIME"}

\* --------------------------------------------------------------- helpers
Min2(a, b) == IF a <= b THEN a ELSE b

RECURSIVE SumQty(_)
SumQty(fills) ==
    IF fills = <<>> THEN 0 ELSE Head(fills).quantity + SumQty(Tail(fills))

RECURSIVE SumEntries(_)
SumEntries(q) == IF q = <<>> THEN 0 ELSE Head(q)[2] + SumEntries(Tail(q))

RECURSIVE TotalVolume(_)
TotalVolume(m) ==
    IF DOMAIN m = {} THEN 0
    ELSE LET p == CHOOSE x \in DOMAIN m : TRUE
         IN m[p].total_volume + TotalVolume([q \in DOMAIN m \ {p} |-> m[q]])

\* ------------------------------------------------------------- BookLevel
\* BookLevel(): total_volume 0, empty FIFO.
NewLevel == [total_volume |-> 0, orders |-> <<>>]

BookLevel_add_order(level, id, volume) ==
    [total_volume |-> level.total_volume + volume,
     orders       |-> Append(level.orders, <<id, volume>>)]

\* Only the cached total changes; the FIFO is left as it is.
BookLevel_remove_order(level, id, volume) ==
    IF level.total_volume >= volume
    THEN [level EXCEPT !.total_volume = @ - volume]
    ELSE [level EXCEPT !.total_volume = 0]

\* ------------------------------------------------------ std::map helpers
EmptyMap == [p \in {} |-> NewLevel]

\* m[p] of std::map: a missing key is inserted with a default BookLevel.
MapIndex(m, p) ==
    IF p \in DOMAIN m THEN m
    ELSE [q \in DOMAIN m \cup {p} |-> IF q = p THEN NewLevel ELSE m[q]]

MapErase(m, p) == [q \in DOMAIN m \ {p} |-> m[q]]

End == 0     \* the end()/rend() iterator; no price is 0

\* asks_ is ordered by std::less: begin() is the smallest key, ++ moves up.
AsksBegin(m) ==
    IF DOMAIN m = {} THEN End
    ELSE CHOOSE p \in DOMAIN m : \A q \in DOMAIN m : p <= q

AsksNext(m, it) ==
    LET above == {q \in DOMAIN m : q > it}
    IN IF above = {} THEN End ELSE CHOOSE p \in above : \A q \in above : p <= q

\* bids_ is ordered by std::greater: begin() is the largest key, so the
\* reverse iterator rbegin() is the last element in that order, the
\* smallest key, and ++ on a reverse iterator moves to the next larger key.
BidsRBegin(m) ==
    IF DOMAIN m = {} THEN End
    ELSE CHOOSE p \in DOMAIN m : \A q \in DOMAIN m : ~(p > q)

BidsRNext(m, it) ==
    LET before == {q \in DOMAIN m : q > it}
    IN IF before = {} THEN End
       ELSE CHOOSE p \in before : \A q \in before : ~(p > q)

\* ------------------------------------------------------------- OrderBook
MkOrder(id, side, price, quantity) ==
    [id |-> id, side |-> side, price |-> price, quantity |-> quantity]

MkFill(order, price, qty) ==
    [order_id |-> order.id, side |-> order.side, price |-> price,
     quantity |-> qty]

Book(b, a) == [bids |-> b, asks |-> a]

\* A faulty add_order: the order is put on the other side.
add_order_wrong_side(b, a, order) ==
    IF order.side = "BUY"
    THEN Book(b, [MapIndex(a, order.price) EXCEPT
                    ![order.price] = BookLevel_add_order(@, order.id, order.quantity)])
    ELSE Book([MapIndex(b, order.price) EXCEPT
                    ![order.price] = BookLevel_add_order(@, order.id, order.quantity)], a)

add_order(b, a, order) ==
    IF order.side = "BUY"
    THEN Book([MapIndex(b, order.price) EXCEPT
                    ![order.price] = BookLevel_add_order(@, order.id, order.quantity)], a)
    ELSE Book(b, [MapIndex(a, order.price) EXCEPT
                    ![order.price] = BookLevel_add_order(@, order.id, order.quantity)])

remove_order(b, a, order_id, side, price, quantity) ==
    LET m   == IF side = "BUY" THEN b ELSE a
        res == IF price \in DOMAIN m
               THEN LET lvl == BookLevel_remove_order(m[price], order_id, quantity)
                    IN IF lvl.total_volume = 0 THEN MapErase(m, price)
                       ELSE [m EXCEPT ![price] = lvl]
               ELSE m
    IN IF side = "BUY" THEN Book(res, a) ELSE Book(b, res)

\* A faulty FillQty: the whole remaining quantity is filled.
FillQty_ignores_level(remaining, total_volume) == remaining

\* std::min(remaining, it->second.total_volume)
FillQty(remaining, total_volume) == Min2(remaining, total_volume)

\* The result of a matching loop.
Matched(m, remaining, fills) ==
    [map |-> m, remaining |-> remaining, fills |-> fills]

\* execute_market_order, BUY branch: the while loop over asks_.
RECURSIVE MarketBuyLoop(_, _, _, _, _)
MarketBuyLoop(order, m, it, remaining, fills) ==
    IF ~(it # End /\ remaining > 0) THEN Matched(m, remaining, fills)
    ELSE LET fill_qty == FillQty(remaining, m[it].total_volume)
             fs       == Append(fills, MkFill(order, it, fill_qty))
             left     == m[it].total_volume - fill_qty
         IN IF left = 0
            THEN MarketBuyLoop(order, MapErase(m, it), AsksNext(m, it),
                               remaining - fill_qty, fs)
            ELSE MarketBuyLoop(order, [m EXCEPT ![it].total_volume = left],
                               AsksNext(m, it), remaining - fill_qty, fs)

\* execute_market_order, SELL branch: the while loop over bids_ from
\* rbegin(); after an erase the iterator is reset to rbegin().
RECURSIVE MarketSellLoop(_, _, _, _, _)
MarketSellLoop(order, m, it, remaining, fills) ==
    IF ~(it # End /\ remaining > 0) THEN Matched(m, remaining, fills)
    ELSE LET fill_qty == FillQty(remaining, m[it].total_volume)
             fs       == Append(fills, MkFill(order, it, fill_qty))
             left     == m[it].total_volume - fill_qty
         IN IF left = 0
            THEN LET erased == MapErase(m, it)
                 IN MarketSellLoop(order, erased, BidsRBegin(erased),
                                   remaining - fill_qty, fs)
            ELSE MarketSellLoop(order, [m EXCEPT ![it].total_volume = left],
                                BidsRNext(m, it), remaining - fill_qty, fs)

\* execute_limit_order, BUY branch: the loop also requires
\* it->first <= order.price.
RECURSIVE LimitBuyLoop(_, _, _, _, _)
LimitBuyLoop(order, m, it, remaining, fills) ==
    IF ~(it # End /\ it <= order.price /\ remaining > 0)
    THEN Matched(m, remaining, fills)
    ELSE LET fill_qty == FillQty(remaining, m[it].total_volume)
             fs       == Append(fills, MkFill(order, it, fill_qty))
             left     == m[it].total_volume - fill_qty
         IN IF left = 0
            THEN LimitBuyLoop(order, MapErase(m, it), AsksNext(m, it),
                              remaining - fill_qty, fs)
            ELSE LimitBuyLoop(order, [m EXCEPT ![it].total_volume = left],
                              AsksNext(m, it), remaining - fill_qty, fs)

\* execute_limit_order, SELL branch: the loop also requires
\* it->first >= order.price.
RECURSIVE LimitSellLoop(_, _, _, _, _)
LimitSellLoop(order, m, it, remaining, fills) ==
    IF ~(it # End /\ it >= order.price /\ remaining > 0)
    THEN Matched(m, remaining, fills)
    ELSE LET fill_qty == FillQty(remaining, m[it].total_volume)
             fs       == Append(fills, MkFill(order, it, fill_qty))
             left     == m[it].total_volume - fill_qty
         IN IF left = 0
            THEN LET erased == MapErase(m, it)
                 IN LimitSellLoop(order, erased, BidsRBegin(erased),
                                  remaining - fill_qty, fs)
            ELSE LimitSellLoop(order, [m EXCEPT ![it].total_volume = left],
                               BidsRNext(m, it), remaining - fill_qty, fs)

\* A faulty execute_market_order: what could not be filled is rested on the
\* order's own side, as execute_limit_order does.
execute_market_order_rests(b, a, order) ==
    IF order.side = "BUY"
    THEN LET r == MarketBuyLoop(order, a, AsksBegin(a), order.quantity, <<>>)
         IN [book  |-> IF r.remaining > 0
                       THEN add_order(b, r.map, [order EXCEPT !.quantity = r.remaining])
                       ELSE Book(b, r.map),
             fills |-> r.fills]
    ELSE LET r == MarketSellLoop(order, b, BidsRBegin(b), order.quantity, <<>>)
         IN [book  |-> IF r.remaining > 0
                       THEN add_order(r.map, a, [order EXCEPT !.quantity = r.remaining])
                       ELSE Book(r.map, a),
             fills |-> r.fills]

\* execute_market_order: the book afterwards and the fills returned.
execute_market_order(b, a, order) ==
    IF order.side = "BUY"
    THEN LET r == MarketBuyLoop(order, a, AsksBegin(a), order.quantity, <<>>)
         IN [book |-> Book(b, r.map), fills |-> r.fills]
    ELSE LET r == MarketSellLoop(order, b, BidsRBegin(b), order.quantity, <<>>)
         IN [book |-> Book(r.map, a), fills |-> r.fills]

\* execute_limit_order: crossing, then the remaining quantity is added to
\* the book through add_order.
execute_limit_order(b, a, order) ==
    IF order.side = "BUY"
    THEN LET r == LimitBuyLoop(order, a, AsksBegin(a), order.quantity, <<>>)
         IN [book  |-> IF r.remaining > 0
                       THEN add_order(b, r.map, [order EXCEPT !.quantity = r.remaining])
                       ELSE Book(b, r.map),
             fills |-> r.fills]
    ELSE LET r == LimitSellLoop(order, b, BidsRBegin(b), order.quantity, <<>>)
         IN [book  |-> IF r.remaining > 0
                       THEN add_order(r.map, a, [order EXCEPT !.quantity = r.remaining])
                       ELSE Book(r.map, a),
             fills |-> r.fills]

best_bid == IF DOMAIN bids_ = {} THEN None ELSE BidsRBegin(bids_)

best_ask == IF DOMAIN asks_ = {} THEN None ELSE AsksBegin(asks_)

\* --------------------------------------------------- order book actions
NoOrder == MkOrder(0, "BUY", 0, 0)

BookCall(op, order, fills) == [op |-> op, order |-> order, fills |-> fills]

AddOrder ==
    \E side \in Sides, price \in Prices, qty \in Quantities :
        /\ book_calls < MaxCalls
        /\ LET order == MkOrder(next_order_id_, side, price, qty)
               bk    == add_order(bids_, asks_, order)
           IN /\ bids_' = bk.bids
              /\ asks_' = bk.asks
              /\ book_call' = BookCall("add_order", order, <<>>)
        /\ next_order_id_' = next_order_id_ + 1
        /\ book_calls' = book_calls + 1
        /\ UNCHANGED matching_algo_

RemoveOrder ==
    \E side \in Sides, price \in Prices, qty \in Quantities :
        /\ book_calls < MaxCalls
        /\ LET bk == remove_order(bids_, asks_, 0, side, price, qty)
           IN /\ bids_' = bk.bids
              /\ asks_' = bk.asks
              /\ book_call' = BookCall("remove_order",
                                       MkOrder(0, side, price, qty), <<>>)
        /\ UNCHANGED next_order_id_
        /\ book_calls' = book_calls + 1
        /\ UNCHANGED matching_algo_

ExecuteMarketOrder ==
    \E side \in Sides, qty \in Quantities :
        /\ book_calls < MaxCalls
        /\ LET order == MkOrder(next_order_id_, side, 0, qty)
               r     == execute_market_order(bids_, asks_, order)
           IN /\ bids_' = r.book.bids
              /\ asks_' = r.book.asks
              /\ book_call' = BookCall("execute_market_order", order, r.fills)
        /\ next_order_id_' = next_order_id_ + 1
        /\ book_calls' = book_calls + 1
        /\ UNCHANGED matching_algo_

ExecuteLimitOrder ==
    \E side \in Sides, price \in Prices, qty \in Quantities :
        /\ book_calls < MaxCalls
        /\ LET order == MkOrder(next_order_id_, side, price, qty)
               r     == execute_limit_order(bids_, asks_, order)
           IN /\ bids_' = r.book.bids
              /\ asks_' = r.book.asks
              /\ book_call' = BookCall("execute_limit_order", order, r.fills)
        /\ next_order_id_' = next_order_id_ + 1
        /\ book_calls' = book_calls + 1
        /\ UNCHANGED matching_algo_

\* ================================================================ SimClock
\* Timestamps and durations are nanosecond counts in the source; the model
\* uses small integers.  A scheduled callback is an arbitrary
\* std::function<void()>: what it does is chosen when it runs, among one call
\* of each public SimClock operation (or nothing).

VARIABLES
    current_time_,       \* SimClock::current_time_
    scheduled_events_,   \* SimClock::scheduled_events_, the pending events
    mutex_,              \* SimClock::mutex_ : TRUE when locked
    advance_depth,       \* number of advance_to calls now on the call stack
    clock_pc,            \* where the innermost advance_to is: "idle" (none
                         \* running), "loop" (evaluating the while condition
                         \* of process_scheduled_events), "callback" (inside
                         \* event.callback(), lock released)
    next_event_seq,      \* number of schedule calls so far, plus one
    fired,               \* the callbacks invoked so far, in order
    pending_at_advance,  \* the events that were pending when the outermost
                         \* advance_to now running (or last run) was called
    advance_target,      \* new_time of that outermost advance_to
    clock_calls,         \* number of calls made from outside callbacks
    clock_step           \* the SimClock call made by the last step

clockVars == <<current_time_, scheduled_events_, mutex_, advance_depth,
               clock_pc, next_event_seq, fired, pending_at_advance,
               advance_target, clock_calls, clock_step>>

MaxTime       == 2     \* timestamps are 0..MaxTime
MaxDelay      == 1     \* durations are -MaxDelay..MaxDelay
MaxEvents     == 2     \* schedule calls in one behaviour
MaxClockCalls == 3     \* SimClock calls from outside callbacks

Times     == 0..MaxTime
Durations == (0 - MaxDelay)..MaxDelay

\* ScheduledEvent.  seq, the order of insertion, and late, whether the due
\* time had already passed at insertion, are not fields of the source's
\* struct: they name the event in the properties.
MkEvent(seq, execution_time) ==
    [seq |-> seq, execution_time |-> execution_time,
     late |-> execution_time < current_time_]

\* ScheduledEvent::operator> compares execution_time alone.
EventGreater(a, b) == a.execution_time > b.execution_time

\* The events std::priority_queue<..., std::greater<>>::top() can return:
\* those no other event is smaller than.  Among events that compare equal
\* the heap fixes no order.
Tops(events) == {e \in events : \A o \in events : ~EventGreater(e, o)}

\* A faulty IsDue: every pending event is taken as due.
IsDue_always(e, now) == TRUE

\* scheduled_events_.top().execution_time <= current_time_
IsDue(e, now) == e.execution_time <= now

\* A faulty Rewinds: the guard of advance_to is missing.
Rewinds_never(new_time, now) == FALSE

\* new_time < current_time_
Rewinds(new_time, now) == new_time < now

NoClockStep == [op |-> "init", arg |-> 0, result |-> "ok", nested |-> FALSE]

ClockStep(op, arg, result) ==
    [op |-> op, arg |-> arg, result |-> result, nested |-> advance_depth > 0]

\* Who may make a call now: code outside any callback when no advance_to is
\* running, or the callback that is running.  Either way the mutex is free.
Outside  == clock_pc = "idle" /\ clock_calls < MaxClockCalls
InCallback == clock_pc = "callback"

\* What the caller resumes with after a call that returned or threw:
\* outside code goes on; a callback returns (or its exception is caught) and
\* process_scheduled_events locks the mutex again and loops.
Resume ==
    IF clock_pc = "idle"
    THEN /\ clock_calls' = clock_calls + 1
         /\ UNCHANGED <<clock_pc, mutex_>>
    ELSE /\ clock_pc' = "loop"
         /\ mutex_' = TRUE
         /\ UNCHANGED clock_calls

\* advance_to(new_time): lock, throw on a rewind, else set the time and
\* enter process_scheduled_events.
advance_to(new_time, op, arg) ==
    /\ mutex_ = FALSE
    /\ IF Rewinds(new_time, current_time_)
       THEN /\ clock_step' = ClockStep(op, arg, "ClockRewind")
            /\ Resume
            /\ UNCHANGED <<current_time_, advance_depth, pending_at_advance,
                           advance_target>>
       ELSE /\ clock_step' = ClockStep(op, arg, "ok")
            /\ current_time_' = new_time
            /\ mutex_' = TRUE
            /\ advance_depth' = advance_depth + 1
            /\ clock_pc' = "loop"
            /\ IF clock_pc = "idle"
               THEN /\ clock_calls' = clock_calls + 1
                    /\ pending_at_advance' = {e.seq : e \in scheduled_events_}
                    /\ advance_target' = new_time
               ELSE UNCHANGED <<clock_calls, pending_at_advance,
                                advance_target>>
    /\ UNCHANGED <<scheduled_events_, next_event_seq, fired>>

\* schedule(execution_time, callback): lock, push, unlock.
schedule(execution_time, op, arg) ==
    /\ mutex_ = FALSE
    /\ next_event_seq <= MaxEvents
    /\ scheduled_events_' =
           scheduled_events_ \cup {MkEvent(next_event_seq, execution_time)}
    /\ next_event_seq' = next_event_seq + 1
    /\ clock_step' = ClockStep(op, arg, "ok")
    /\ Resume
    /\ UNCHANGED <<current_time_, advance_depth, fired, pending_at_advance,
                   advance_target>>

\* reset(new_time): lock, set the time, drop every scheduled event.
reset(new_time) ==
    /\ mutex_ = FALSE
    /\ current_time_' = new_time
    /\ scheduled_events_' = {}
    /\ clock_step' = ClockStep("reset", new_time, "ok")
    /\ Resume
    /\ UNCHANGED <<advance_depth, next_event_seq, fired, pending_at_advance,
                   advance_target>>

\* ------------------------------------------------------ calls from outside
AdvanceTo ==
    \E t \in Times : Outside /\ advance_to(t, "advance_to", t)

\* advance_by(d) is advance_to(now() + d).
AdvanceBy ==
    \E d \in Durations :
        /\ Outside
        /\ current_time_ + d <= MaxTime
        /\ advance_to(current_time_ + d, "advance_by", d)

Schedule ==
    \E t \in Times : Outside /\ schedule(t, "schedule", t)

\* schedule_delay(d, cb) is schedule(now() + d, cb).
ScheduleDelay ==
    \E d \in Durations :
        Outside /\ schedule(current_time_ + d, "schedule_delay", d)

Reset ==
    \E t \in Times : Outside /\ reset(t)

\* A faulty PopEvent: the callback is entered without mutex_.unlock().
PopEvent_keeps_lock ==
    /\ clock_pc = "loop"
    /\ \E e \in Tops(scheduled_events_) :
        /\ IsDue(e, current_time_)
        /\ scheduled_events_' = scheduled_events_ \ {e}
        /\ fired' = Append(fired,
                           [seq |-> e.seq, execution_time |-> e.execution_time,
                            now |-> current_time_, call |-> clock_calls,
                            late |-> e.late, target |-> advance_target,
                            pending |-> e.seq \in pending_at_advance])
    /\ mutex_' = TRUE
    /\ clock_pc' = "callback"
    /\ clock_step' = ClockStep("callback", 0, "ok")
    /\ UNCHANGED <<current_time_, advance_depth, next_event_seq,
                   pending_at_advance, advance_target, clock_calls>>

\* ------------------------------------------- process_scheduled_events
\* The while condition holds: take top(), pop it, unlock the mutex and
\* enter the callback.
PopEvent ==
    /\ clock_pc = "loop"
    /\ \E e \in Tops(scheduled_events_) :
        /\ IsDue(e, current_time_)
        /\ scheduled_events_' = scheduled_events_ \ {e}
        /\ fired' = Append(fired,
                           [seq |-> e.seq, execution_time |-> e.execution_time,
                            now |-> current_time_, call |-> clock_calls,
                            late |-> e.late, target |-> advance_target,
                            pending |-> e.seq \in pending_at_advance])
    /\ mutex_' = FALSE
    /\ clock_pc' = "callback"
    /\ clock_step' = ClockStep("callback", 0, "ok")
    /\ UNCHANGED <<current_time_, advance_depth, next_event_seq,
                   pending_at_advance, advance_target, clock_calls>>

\* The while condition fails: process_scheduled_events and advance_to
\* return and the lock_guard unlocks.  An advance_to that a callback called
\* returns into that callback, which returns in turn: the outer loop locks
\* again.
ReturnFromAdvance ==
    /\ clock_pc = "loop"
    /\ ~ \E e \in Tops(scheduled_events_) : IsDue(e, current_time_)
    /\ advance_depth' = advance_depth - 1
    /\ IF advance_depth = 1
       THEN clock_pc' = "idle" /\ mutex_' = FALSE
       ELSE clock_pc' = "loop" /\ mutex_' = TRUE
    /\ clock_step' = ClockStep("return", 0, "ok")
    /\ UNCHANGED <<current_time_, scheduled_events_, next_event_seq, fired,
                   pending_at_advance, advance_target, clock_calls>>

\* ------------------------------------------------- what a callback does
CallbackReturns ==
    /\ InCallback
    /\ clock_pc' = "loop"
    /\ mutex_' = TRUE
    /\ clock_step' = ClockStep("callback_return", 0, "ok")
    /\ UNCHANGED <<current_time_, scheduled_events_, advance_depth,
                   next_event_seq, fired, pending_at_advance, advance_target,
                   clock_calls>>

CallbackAdvanceTo ==
    \E t \in Times : InCallback /\ advance_to(t, "advance_to", t)

CallbackAdvanceBy ==
    \E d \in Durations :
        /\ InCallback
        /\ current_time_ + d <= MaxTime
        /\ advance_to(current_time_ + d, "advance_by", d)

CallbackSchedule ==
    \E t \in Times : InCallback /\ schedule(t, "schedule", t)

CallbackScheduleDelay ==
    \E d \in Durations :
        InCallback /\ schedule(current_time_ + d, "schedule_delay", d)

CallbackReset ==
    \E t \in Times : InCallback /\ reset(t)

\* What a callback throws: an object of a class derived from std::exception,
\* or one of another type (throw 42).
Exceptions == {"std::exception", "other"}

\* The callback throws.  catch (const std::exception&) takes an exception
\* of that class: the mutex is locked again and the loop goes on.  One of
\* another type leaves process_scheduled_events without mutex_.lock() and
\* then every advance_to on the stack, whose lock_guard unlocks a mutex its
\* thread does not hold: undefined, the mutex is left free or left locked.
CallbackThrows ==
    \E exception \in Exceptions :
        /\ InCallback
        /\ IF exception = "std::exception"
           THEN /\ clock_pc' = "loop"
                /\ mutex_' = TRUE
                /\ clock_step' = ClockStep("callback_throws", 0, "caught")
                /\ UNCHANGED advance_depth
           ELSE /\ clock_pc' = "idle"
                /\ mutex_' \in BOOLEAN
                /\ advance_depth' = 0
                /\ clock_step' = ClockStep("callback_throws", 0, "escaped")
        /\ UNCHANGED <<current_time_, scheduled_events_, next_event_seq,
                       fired, pending_at_advance, advance_target,
                       clock_calls>>


\* ================================================================ EventBus
\* include/core/event_bus.h.  Two threads use the bus: "main", the one
\* producer, which makes every public call, and "worker", the thread that
\* start() creates to run process_events.
VARIABLES
    subscribers_,      \* EventBus::subscribers_ : kind -> handles, in
                       \* subscription order (a kind never subscribed to
                       \* has the empty list)
    all_subscribers_,  \* EventBus::all_subscribers_ : handles, in order
    handle_to_type_,   \* EventBus::handle_to_type_ : handle -> kind
    next_handle_,      \* EventBus::next_handle_
    event_queue_,      \* EventBus::event_queue_
    running_,          \* EventBus::running_
    bus_mutex_,        \* holder of EventBus::mutex_: "free" or a thread
    bus_pc,            \* where each thread is
    bus_event,         \* the event each thread is dispatching
    todo,              \* handlers the running dispatch_event has yet to call
    local_queue,       \* process_pending's local_queue
    main_call,         \* the public call the main thread is inside
    delivered,         \* the handler invocations made so far, in order
    issued,            \* the handles returned so far
    next_event_id,     \* number of events published so far, plus one
    bus_calls,         \* number of public calls made so far
    bus_step           \* what the last step did

busVars == <<subscribers_, all_subscribers_, handle_to_type_, next_handle_,
             event_queue_, running_, bus_mutex_, bus_pc, bus_event, todo,
             local_queue, main_call, delivered, issued, next_event_id,
             bus_calls, bus_step>>

MaxHandles   == 2    \* subscribe and subscribe_all calls in one behaviour
MaxBusEvents == 2    \* publish and publish_sync calls in one behaviour
MaxBusCalls  == 5    \* public calls in one behaviour

\* Two of the EventType kinds.
MARKET_DATA == 0
SIGNAL      == 1
Kinds       == {MARKET_DATA, SIGNAL}
Handles    == 1..MaxHandles
BusThreads == {"main", "worker"}

\* What a handler can do when it is called: return, throw an exception
\* derived from std::exception, or throw any other object.
Outcomes == {"returns", "std_exception", "other_exception"}

NoEvent == [id |-> 0, kind |-> 0, via |-> "none"]

\* An event; id, the order of publication, and via, the call that published
\* it, name it in the properties.
MkBusEvent(id, kind, via) == [id |-> id, kind |-> kind, via |-> via]

NoBusStep == [op |-> "init", thread |-> "main", arg |-> 0, result |-> 0]

BusStep(op, thread, arg, result) ==
    [op |-> op, thread |-> thread, arg |-> arg, result |-> result]

\* A faulty EraseHandle: every entry goes.
EraseHandle_all(list, handle) == <<>>

\* std::remove_if + erase: the entries of handle go, the others keep
\* their order.
EraseHandle(list, handle) == SelectSeq(list, LAMBDA h : h # handle)

\* The main thread is between two public calls and may make another.
MainIdle == bus_pc["main"] = "idle" /\ bus_calls < MaxBusCalls

\* queue_mutex_ is held by the worker between evaluating the predicate of
\* cv_.wait and blocking; every other critical section on it is one step.
QueueMutexFree == bus_pc["worker"] # "about_to_wait"

\* cv_.notify_one() / cv_.notify_all(): a worker blocked in cv_.wait wakes
\* and evaluates the predicate again.
Notified(pc) ==
    IF pc["worker"] = "waiting" THEN [pc EXCEPT !["worker"] = "check"] ELSE pc

\* try { handler(event); } catch (const std::exception&) {}: the loop goes
\* on after a return and after an exception derived from std::exception.
CatchesHere(outcome) == outcome \in {"returns", "std_exception"}

\* --------------------------------------------------------- public calls
\* subscribe<EventT>(handler), EventT::type_id() being kind.  The wrapper's
\* dynamic_cast passes every event of that kind: an EventT is taken to
\* carry its own type_id as type().
Subscribe ==
    \E kind \in Kinds :
        /\ MainIdle
        /\ bus_mutex_ = "free"
        /\ next_handle_ <= MaxHandles
        /\ subscribers_' =
               [subscribers_ EXCEPT ![kind] = Append(@, next_handle_)]
        /\ handle_to_type_' = handle_to_type_ @@ (next_handle_ :> kind)
        /\ next_handle_' = next_handle_ + 1
        /\ issued' = issued \cup {next_handle_}
        /\ bus_calls' = bus_calls + 1
        /\ bus_step' = BusStep("subscribe", "main", kind, next_handle_)
        /\ UNCHANGED <<all_subscribers_, event_queue_, running_, bus_mutex_,
                       bus_pc, bus_event, todo, local_queue, main_call,
                       delivered, next_event_id>>

SubscribeAll ==
    /\ MainIdle
    /\ bus_mutex_ = "free"
    /\ next_handle_ <= MaxHandles
    /\ all_subscribers_' = Append(all_subscribers_, next_handle_)
    /\ handle_to_type_' = handle_to_type_ @@ (next_handle_ :> MARKET_DATA)
    /\ next_handle_' = next_handle_ + 1
    /\ issued' = issued \cup {next_handle_}
    /\ bus_calls' = bus_calls + 1
    /\ bus_step' = BusStep("subscribe_all", "main", 0, next_handle_)
    /\ UNCHANGED <<subscribers_, event_queue_, running_, bus_mutex_, bus_pc,
                   bus_event, todo, local_queue, main_call, delivered,
                   next_event_id>>

Unsubscribe ==
    \E handle \in Handles :
        /\ MainIdle
        /\ bus_mutex_ = "free"
        /\ IF handle \notin DOMAIN handle_to_type_
           THEN UNCHANGED <<subscribers_, all_subscribers_, handle_to_type_>>
           ELSE /\ subscribers_' =
                       [subscribers_ EXCEPT ![handle_to_type_[handle]] =
                            EraseHandle(@, handle)]
                /\ all_subscribers_' = EraseHandle(all_subscribers_, handle)
                /\ handle_to_type_' =
                       [h \in DOMAIN handle_to_type_ \ {handle} |->
                            handle_to_type_[h]]
        /\ bus_calls' = bus_calls + 1
        /\ bus_step' = BusStep("unsubscribe", "main", handle, 0)
        /\ UNCHANGED <<next_handle_, issued, event_queue_, running_, bus_mutex_,
                       bus_pc, bus_event, todo, local_queue, main_call,
                       delivered, next_event_id>>

\* publish(event): push under queue_mutex_, then notify_one.
Publish ==
    \E kind \in Kinds :
        /\ MainIdle
        /\ QueueMutexFree
        /\ next_event_id <= MaxBusEvents
        /\ event_queue_' =
               Append(event_queue_, MkBusEvent(next_event_id, kind, "publish"))
        /\ next_event_id' = next_event_id + 1
        /\ bus_pc' = Notified(bus_pc)
        /\ bus_calls' = bus_calls + 1
        /\ bus_step' = BusStep("publish", "main", kind, next_event_id)
        /\ UNCHANGED <<subscribers_, all_subscribers_, handle_to_type_,
                       next_handle_, issued, running_, bus_mutex_, bus_event, todo,
                       local_queue, main_call, delivered>>

\* publish_sync(event): dispatch_event on the caller's thread.
PublishSync ==
    \E kind \in Kinds :
        /\ MainIdle
        /\ next_event_id <= MaxBusEvents
        /\ bus_event' = [bus_event EXCEPT !["main"] =
                            MkBusEvent(next_event_id, kind, "publish_sync")]
        /\ next_event_id' = next_event_id + 1
        /\ bus_pc' = [bus_pc EXCEPT !["main"] = "lock"]
        /\ main_call' = "publish_sync"
        /\ bus_calls' = bus_calls + 1
        /\ bus_step' = BusStep("publish_sync", "main", kind, next_event_id)
        /\ UNCHANGED <<subscribers_, all_subscribers_, handle_to_type_,
                       next_handle_, issued, event_queue_, running_, bus_mutex_, todo,
                       local_queue, delivered>>

\* start(): under mutex_, nothing if running; else set running_ and create
\* the worker thread.
Start ==
    /\ MainIdle
    /\ bus_mutex_ = "free"
    /\ IF running_
       THEN UNCHANGED <<running_, bus_pc>>
       ELSE /\ running_' = TRUE
            /\ bus_pc' = [bus_pc EXCEPT !["worker"] = "check"]
    /\ bus_calls' = bus_calls + 1
    /\ bus_step' = BusStep("start", "main", 0, 0)
    /\ UNCHANGED <<subscribers_, all_subscribers_, handle_to_type_,
                   next_handle_, issued, event_queue_, bus_mutex_, bus_event, todo,
                   local_queue, main_call, delivered, next_event_id>>

\* stop(), first block: under mutex_, return if not running, else clear
\* running_.
Stop ==
    /\ MainIdle
    /\ bus_mutex_ = "free"
    /\ IF running_
       THEN /\ running_' = FALSE
            /\ bus_pc' = [bus_pc EXCEPT !["main"] = "stop_notify"]
            /\ main_call' = "stop"
       ELSE UNCHANGED <<running_, bus_pc, main_call>>
    /\ bus_calls' = bus_calls + 1
    /\ bus_step' = BusStep("stop", "main", 0, 0)
    /\ UNCHANGED <<subscribers_, all_subscribers_, handle_to_type_,
                   next_handle_, issued, event_queue_, bus_mutex_, bus_event, todo,
                   local_queue, delivered, next_event_id>>

\* stop(): cv_.notify_all().
StopNotify ==
    /\ bus_pc["main"] = "stop_notify"
    /\ bus_pc' = [Notified(bus_pc) EXCEPT !["main"] = "stop_join"]
    /\ bus_step' = BusStep("stop_notify", "main", 0, 0)
    /\ UNCHANGED <<subscribers_, all_subscribers_, handle_to_type_,
                   next_handle_, issued, event_queue_, running_, bus_mutex_,
                   bus_event, todo, local_queue, main_call, delivered,
                   next_event_id, bus_calls>>

\* stop(): worker_thread_.join() returns once process_events has returned.
StopJoin ==
    /\ bus_pc["main"] = "stop_join"
    /\ bus_pc["worker"] = "exited"
    /\ bus_pc' = [main |-> "idle", worker |-> "none"]
    /\ main_call' = "none"
    /\ bus_step' = BusStep("stop_join", "main", 0, 0)
    /\ UNCHANGED <<subscribers_, all_subscribers_, handle_to_type_,
                   next_handle_, issued, event_queue_, running_, bus_mutex_,
                   bus_event, todo, local_queue, delivered, next_event_id,
                   bus_calls>>

\* process_pending(): swap the queue out under queue_mutex_.
ProcessPending ==
    /\ MainIdle
    /\ QueueMutexFree
    /\ local_queue' = event_queue_
    /\ event_queue_' = <<>>
    /\ bus_pc' = [bus_pc EXCEPT !["main"] = "pending_loop"]
    /\ main_call' = "process_pending"
    /\ bus_calls' = bus_calls + 1
    /\ bus_step' = BusStep("process_pending", "main", 0, 0)
    /\ UNCHANGED <<subscribers_, all_subscribers_, handle_to_type_,
                   next_handle_, issued, running_, bus_mutex_, bus_event, todo,
                   delivered, next_event_id>>

\* process_pending(): the while loop takes the front of local_queue and
\* calls dispatch_event, or returns when local_queue is empty.
PendingLoop ==
    /\ bus_pc["main"] = "pending_loop"
    /\ IF local_queue = <<>>
       THEN /\ bus_pc' = [bus_pc EXCEPT !["main"] = "idle"]
            /\ main_call' = "none"
            /\ bus_step' = BusStep("pending_return", "main", 0, 0)
            /\ UNCHANGED <<bus_event, local_queue>>
       ELSE /\ bus_event' = [bus_event EXCEPT !["main"] = Head(local_queue)]
            /\ local_queue' = Tail(local_queue)
            /\ bus_pc' = [bus_pc EXCEPT !["main"] = "lock"]
            /\ bus_step' = BusStep("pending_take", "main", 0,
                                   Head(local_queue).id)
            /\ UNCHANGED main_call
    /\ UNCHANGED <<subscribers_, all_subscribers_, handle_to_type_,
                   next_handle_, issued, event_queue_, running_, bus_mutex_, todo,
                   delivered, next_event_id, bus_calls>>

\* ------------------------------------------------------- process_events
\* The worker holds queue_mutex_ and evaluates the predicate of cv_.wait.
\* True with an event queued: pop it, unlock, go to dispatch_event.  True
\* with the queue empty and running_ false: break.  False: about to block.
WorkerCheck ==
    /\ bus_pc["worker"] = "check"
    /\ IF event_queue_ # <<>>
       THEN /\ bus_event' = [bus_event EXCEPT !["worker"] = Head(event_queue_)]
            /\ event_queue_' = Tail(event_queue_)
            /\ bus_pc' = [bus_pc EXCEPT !["worker"] = "lock"]
            /\ bus_step' = BusStep("worker_take", "worker", 0,
                                   Head(event_queue_).id)
       ELSE /\ bus_pc' = [bus_pc EXCEPT !["worker"] =
                             IF running_ THEN "about_to_wait" ELSE "exited"]
            /\ bus_step' = BusStep("worker_check", "worker", 0, 0)
            /\ UNCHANGED <<bus_event, event_queue_>>
    /\ UNCHANGED <<subscribers_, all_subscribers_, handle_to_type_,
                   next_handle_, issued, running_, bus_mutex_, todo, local_queue,
                   main_call, delivered, next_event_id, bus_calls>>

\* cv_.wait releases queue_mutex_ and blocks until notified.
WorkerWait ==
    /\ bus_pc["worker"] = "about_to_wait"
    /\ bus_pc' = [bus_pc EXCEPT !["worker"] = "waiting"]
    /\ bus_step' = BusStep("worker_wait", "worker", 0, 0)
    /\ UNCHANGED <<subscribers_, all_subscribers_, handle_to_type_,
                   next_handle_, issued, event_queue_, running_, bus_mutex_,
                   bus_event, todo, local_queue, main_call, delivered,
                   next_event_id, bus_calls>>

\* ------------------------------------------------------- dispatch_event
\* A faulty HandlersFor: the all-event handlers come first.
HandlersFor_all_first(kind) == all_subscribers_ \o subscribers_[kind]

\* The two loops of dispatch_event: the handlers of subscribers_[type],
\* then those of all_subscribers_, each list in its order.
HandlersFor(kind) == subscribers_[kind] \o all_subscribers_

\* lock_guard on mutex_, then the handlers to call: those of the event's
\* kind, then the all-event ones.
DispatchLock ==
    \E th \in BusThreads :
        /\ bus_pc[th] = "lock"
        /\ bus_mutex_ = "free"
        /\ bus_mutex_' = th
        /\ todo' = HandlersFor(bus_event[th].kind)
        /\ bus_pc' = [bus_pc EXCEPT ![th] = "handlers"]
        /\ bus_step' = BusStep("dispatch", th, 0, bus_event[th].id)
        /\ UNCHANGED <<subscribers_, all_subscribers_, handle_to_type_,
                       next_handle_, issued, event_queue_, running_, bus_event,
                       local_queue, main_call, delivered, next_event_id,
                       bus_calls>>

\* handler(event) is called.  A return or a caught exception goes on to
\* the next handler.  Any other exception leaves dispatch_event (the
\* lock_guard unlocks): on the main thread it leaves publish_sync or
\* process_pending too, whose local_queue is destroyed, and reaches the
\* caller; on the worker it leaves the thread function and std::terminate
\* ends the program.
InvokeHandler ==
    \E th \in BusThreads, outcome \in Outcomes :
        /\ bus_pc[th] = "handlers"
        /\ todo # <<>>
        /\ delivered' = Append(delivered,
                               [handle |-> Head(todo), event |-> bus_event[th]])
        /\ bus_step' = BusStep("handler", th, Head(todo), outcome)
        /\ IF CatchesHere(outcome)
           THEN /\ todo' = Tail(todo)
                /\ UNCHANGED <<bus_mutex_, bus_pc, local_queue, main_call>>
           ELSE /\ todo' = <<>>
                /\ bus_mutex_' = "free"
                /\ local_queue' = <<>>
                /\ main_call' = "none"
                /\ bus_pc' = IF th = "main"
                             THEN [bus_pc EXCEPT !["main"] = "idle"]
                             ELSE [t \in BusThreads |-> "terminated"]
        /\ UNCHANGED <<subscribers_, all_subscribers_, handle_to_type_,
                       next_handle_, issued, event_queue_, running_, bus_event,
                       next_event_id, bus_calls>>

\* The calls a handler may make on the bus it is called by.
NestedCalls == {"publish_sync", "subscribe", "unsubscribe"}

\* lock_guard<std::mutex>(mutex_) on a thread that holds mutex_ already (a
\* std::mutex is not recursive): undefined; the thread blocks for ever, or
\* lock() throws std::system_error.
RelockOutcomes == {"blocks", "system_error"}

\* handler(event) is called and calls publish_sync, subscribe or
\* unsubscribe on the same bus: each begins by locking mutex_, which
\* dispatch_event holds on this thread.  A thread that blocks stays in the
\* handler; a std::system_error leaves the handler and is caught by
\* dispatch_event, which goes on to the next handler.
HandlerCallsBus ==
    \E th \in BusThreads, call \in NestedCalls, outcome \in RelockOutcomes :
        /\ bus_pc[th] = "handlers"
        /\ bus_mutex_ = th
        /\ todo # <<>>
        /\ delivered' = Append(delivered,
                               [handle |-> Head(todo), event |-> bus_event[th]])
        /\ bus_step' = BusStep("handler_calls", th, call, outcome)
        /\ IF outcome = "blocks"
           THEN /\ bus_pc' = [bus_pc EXCEPT ![th] = "blocked"]
                /\ UNCHANGED todo
           ELSE /\ todo' = Tail(todo)
                /\ UNCHANGED bus_pc
        /\ UNCHANGED <<subscribers_, all_subscribers_, handle_to_type_,
                       next_handle_, issued, event_queue_, running_,
                       bus_mutex_, bus_event, local_queue, main_call,
                       next_event_id, bus_calls>>

\* Both loops are done: dispatch_event returns and the lock_guard unlocks.
\* The worker goes round its loop; the main thread goes back to
\* process_pending's loop or returns from publish_sync.
DispatchReturn ==
    \E th \in BusThreads :
        /\ bus_pc[th] = "handlers"
        /\ todo = <<>>
        /\ bus_mutex_' = "free"
        /\ bus_pc' = [bus_pc EXCEPT ![th] =
                         IF th = "worker" THEN "check"
                         ELSE IF main_call = "process_pending"
                              THEN "pending_loop" ELSE "idle"]
        /\ main_call' = IF th = "main" /\ main_call = "publish_sync"
                        THEN "none" ELSE main_call
        /\ bus_step' = BusStep("dispatch_return", th, 0, bus_event[th].id)
        /\ UNCHANGED <<subscribers_, all_subscribers_, handle_to_type_,
                       next_handle_, issued, event_queue_, running_, bus_event, todo,
                       local_queue, delivered, next_event_id, bus_calls>>


\* ============================================================= RiskManager
\* include/strategy/risk_manager.h.  Simulated time is what orders and
\* fills carry in their timestamp; the wall clock is what
\* std::chrono::high_resolution_clock::now() returns inside the calls.
\* Both are counted in minutes, and both move on between calls.  Fills
\* are of one unit at price 1.  A map entry that operator[] would create
\* is taken as present from the start with its default value.
VARIABLES
    limits_,           \* RiskManager::limits_
    strategy_limits_,  \* RiskManager::strategy_limits_ : strategy -> limits
    positions_,        \* RiskManager::positions_ : pair -> Position.quantity
    exposures_,        \* RiskManager::exposures_ : pair -> notional
    rate_limiting_,    \* RiskManager::rate_limiting_ : strategy ->
                       \* [order_times, daily_orders]
    strategy_pnl_,     \* RiskManager::strategy_pnl_ : strategy ->
                       \* [daily_pnl, total_pnl, cooldown_until]
    wall_clock,        \* what high_resolution_clock::now() returns
    sim_clock,         \* the simulated time: the timestamp that the next
                       \* order or fill carries
    fill_sum,          \* pair -> buy-fill quantities minus sell-fill
                       \* quantities so far, as an integer
    submitted,         \* strategy -> timestamps of the orders passed to
                       \* on_order_submitted so far
    cooldown_sim,      \* strategy -> fill timestamp + loss_cooldown of the
                       \* last significant loss, 0 when there was none
    risk_calls,        \* number of calls other than check_order so far
    risk_call          \* the RiskManager call made by the last step

riskVars == <<limits_, strategy_limits_, positions_, exposures_,
              rate_limiting_, strategy_pnl_, wall_clock, sim_clock, fill_sum,
              submitted, cooldown_sim, risk_calls, risk_call>>

MaxRiskTime  == 2     \* both clocks read 0..MaxRiskTime minutes
MaxRiskCalls == 2     \* RiskManager calls other than check_order in one
                      \* behaviour

\* std::chrono::minutes(1).
Minute == 1
\* if (trade_pnl < -1000.0): the significant-loss threshold is -1000.
SignificantLoss == 1000
\* Volume is an unsigned integer: its arithmetic wraps at VolumeModulus
\* (2^64 in the source, 2^30 here).
VolumeModulus == 1073741824

Strategies  == {"s1", "s2"}
Instruments == {"i1"}
Pairs       == Strategies \X Instruments
Commissions == {0, 1500, 2500}

\* RiskLimits with the four switches as given and limits small enough for
\* the orders drawn here to reach each of them.
RiskLimits(position, loss, exposure, rate) ==
    [max_position_size      |-> 1,
     max_notional_exposure  |-> 1,
     max_portfolio_exposure |-> 2,
     max_daily_loss         |-> 0 - 2000,
     max_total_loss         |-> 0 - 2000,
     max_orders_per_minute  |-> 1,
     max_orders_per_day     |-> 2,
     max_order_size         |-> 1,
     loss_cooldown          |-> Minute,
     enable_position_limits |-> position,
     enable_loss_limits     |-> loss,
     enable_exposure_limits |-> exposure,
     enable_rate_limiting   |-> rate]

\* Every check enabled, or all but one.
LimitsChoices ==
    {RiskLimits(TRUE, TRUE, TRUE, TRUE), RiskLimits(FALSE, TRUE, TRUE, TRUE),
     RiskLimits(TRUE, FALSE, TRUE, TRUE), RiskLimits(TRUE, TRUE, FALSE, TRUE),
     RiskLimits(TRUE, TRUE, TRUE, FALSE)}

\* The fields of Order that the risk manager reads.
RiskOrder(strategy, instrument, side, price, quantity, timestamp) ==
    [strategy |-> strategy, instrument |-> instrument, side |-> side,
     price |-> price, quantity |-> quantity, timestamp |-> timestamp]

\* The fields of Fill that the risk manager reads.
RiskFill(strategy, instrument, side, price, quantity, fee, timestamp) ==
    [strategy |-> strategy, instrument |-> instrument, side |-> side,
     price |-> price, quantity |-> quantity, commission |-> fee,
     timestamp |-> timestamp]

APPROVED == [result |-> "APPROVED", message |-> ""]    \* std::nullopt

RiskViolation(result, message) == [result |-> result, message |-> message]

\* Volume arithmetic and static_cast<int64_t>.
VolumeAdd(a, b) == (a + b) % VolumeModulus
VolumeSub(a, b) == (a - b) % VolumeModulus
AsSigned(v)     == IF v >= VolumeModulus \div 2 THEN v - VolumeModulus ELSE v
Abs(x)          == IF x < 0 THEN 0 - x ELSE x

\* get_limits: the strategy's override if there is one, else limits_.
get_limits(strategy) ==
    IF strategy \in DOMAIN strategy_limits_
    THEN strategy_limits_[strategy] ELSE limits_

\* while (!order_times.empty() && order_times.front() < minute_ago) pop().
RECURSIVE CleanOldOrders(_, _)
CleanOldOrders(order_times, minute_ago) ==
    IF order_times # <<>> /\ Head(order_times) < minute_ago
    THEN CleanOldOrders(Tail(order_times), minute_ago)
    ELSE order_times

\* Simplified P&L: the commission cost alone.
calculate_trade_pnl(fill) == 0 - fill.commission

\* A faulty NewPosition: the unsigned value is compared as it is, without
\* static_cast<int64_t>.
NewPosition_no_cast(order) ==
    LET quantity == positions_[<<order.strategy, order.instrument>>] IN
    IF order.side = "BUY" THEN VolumeAdd(quantity, order.quantity)
    ELSE VolumeSub(quantity, order.quantity)

\* The position check's new_position: unsigned arithmetic, then the cast.
NewPosition(order) ==
    LET quantity == positions_[<<order.strategy, order.instrument>>] IN
    AsSigned(IF order.side = "BUY" THEN VolumeAdd(quantity, order.quantity)
             ELSE VolumeSub(quantity, order.quantity))

\* A faulty check_order: the exposure check comes before the position
\* check.
check_order_exposure_first(order, now) ==
    LET limits    == get_limits(order.strategy)
        rate_data == rate_limiting_[order.strategy]
        cleaned   == CleanOldOrders(rate_data.order_times, now - Minute)
        pnl_data  == strategy_pnl_[order.strategy]
        size_fails ==
            /\ limits.enable_position_limits
            /\ order.quantity > limits.max_order_size
        violation ==
            IF size_fails
            THEN RiskViolation("REJECTED_ORDER_SIZE",
                               "Order size exceeds maximum allowed")
            ELSE IF limits.enable_rate_limiting
                    /\ Len(cleaned) >= limits.max_orders_per_minute
            THEN RiskViolation("REJECTED_RATE_LIMIT",
                               "Order rate limit exceeded")
            ELSE IF limits.enable_rate_limiting
                    /\ rate_data.daily_orders >= limits.max_orders_per_day
            THEN RiskViolation("REJECTED_RATE_LIMIT",
                               "Daily order limit exceeded")
            ELSE IF limits.enable_exposure_limits
                    /\ order.quantity * order.price
                           > limits.max_notional_exposure
            THEN RiskViolation("REJECTED_EXPOSURE_LIMIT",
                               "Notional exposure limit exceeded")
            ELSE IF limits.enable_position_limits
                    /\ Abs(NewPosition(order)) > limits.max_position_size
            THEN RiskViolation("REJECTED_POSITION_LIMIT",
                               "Position size limit exceeded")
            ELSE IF limits.enable_loss_limits
                    /\ pnl_data.daily_pnl < limits.max_daily_loss
            THEN RiskViolation("REJECTED_LOSS_LIMIT",
                               "Daily loss limit exceeded")
            ELSE IF limits.enable_loss_limits
                    /\ pnl_data.total_pnl < limits.max_total_loss
            THEN RiskViolation("REJECTED_LOSS_LIMIT",
                               "Total loss limit exceeded")
            ELSE IF limits.enable_loss_limits
                    /\ pnl_data.cooldown_until > now
            THEN RiskViolation("REJECTED_COOLDOWN",
                               "Strategy in cooldown period")
            ELSE APPROVED
    IN  [violation |-> violation,
         rate_limiting |->
            IF ~size_fails /\ limits.enable_rate_limiting
            THEN [rate_limiting_ EXCEPT ![order.strategy].order_times = cleaned]
            ELSE rate_limiting_]

\* check_order(order), now being the wall clock's reading: the violation
\* returned and rate_limiting_ as the call leaves it.
check_order(order, now) ==
    LET limits    == get_limits(order.strategy)
        rate_data == rate_limiting_[order.strategy]
        cleaned   == CleanOldOrders(rate_data.order_times, now - Minute)
        pnl_data  == strategy_pnl_[order.strategy]
        size_fails ==
            /\ limits.enable_position_limits
            /\ order.quantity > limits.max_order_size
        violation ==
            IF size_fails
            THEN RiskViolation("REJECTED_ORDER_SIZE",
                               "Order size exceeds maximum allowed")
            ELSE IF limits.enable_rate_limiting
                    /\ Len(cleaned) >= limits.max_orders_per_minute
            THEN RiskViolation("REJECTED_RATE_LIMIT",
                               "Order rate limit exceeded")
            ELSE IF limits.enable_rate_limiting
                    /\ rate_data.daily_orders >= limits.max_orders_per_day
            THEN RiskViolation("REJECTED_RATE_LIMIT",
                               "Daily order limit exceeded")
            ELSE IF limits.enable_position_limits
                    /\ Abs(NewPosition(order)) > limits.max_position_size
            THEN RiskViolation("REJECTED_POSITION_LIMIT",
                               "Position size limit exceeded")
            ELSE IF limits.enable_exposure_limits
                    /\ order.quantity * order.price
                           > limits.max_notional_exposure
            THEN RiskViolation("REJECTED_EXPOSURE_LIMIT",
                               "Notional exposure limit exceeded")
            ELSE IF limits.enable_loss_limits
                    /\ pnl_data.daily_pnl < limits.max_daily_loss
            THEN RiskViolation("REJECTED_LOSS_LIMIT",
                               "Daily loss limit exceeded")
            ELSE IF limits.enable_loss_limits
                    /\ pnl_data.total_pnl < limits.max_total_loss
            THEN RiskViolation("REJECTED_LOSS_LIMIT",
                               "Total loss limit exceeded")
            ELSE IF limits.enable_loss_limits
                    /\ pnl_data.cooldown_until > now
            THEN RiskViolation("REJECTED_COOLDOWN",
                               "Strategy in cooldown period")
            ELSE APPROVED
    IN  [violation |-> violation,
         rate_limiting |->
            IF ~size_fails /\ limits.enable_rate_limiting
            THEN [rate_limiting_ EXCEPT ![order.strategy].order_times = cleaned]
            ELSE rate_limiting_]

NoRiskCall == [op |-> "init", arg |-> 0, now |-> 0, result |-> APPROVED]

RiskCall(op, arg, now, result) ==
    [op |-> op, arg |-> arg, now |-> now, result |-> result]

\* ------------------------------------------------------------ the calls
CheckOrder ==
    \E s \in Strategies, i \in Instruments, side \in Sides, p \in Prices,
       q \in Quantities :
        LET order == RiskOrder(s, i, side, p, q, sim_clock)
            r     == check_order(order, wall_clock)
        IN  /\ rate_limiting_' = r.rate_limiting
            /\ risk_call' =
                   RiskCall("check_order", order, wall_clock, r.violation)
            /\ UNCHANGED <<limits_, strategy_limits_, positions_, exposures_,
                           strategy_pnl_, wall_clock, sim_clock, fill_sum,
                           submitted, cooldown_sim, risk_calls>>

\* on_order_submitted(order) reads the strategy and the timestamp.
OnOrderSubmitted ==
    \E s \in Strategies :
        LET order == RiskOrder(s, "i1", "BUY", 1, 1, sim_clock) IN
        /\ risk_calls < MaxRiskCalls
        /\ rate_limiting_' =
               IF limits_.enable_rate_limiting
               THEN [rate_limiting_ EXCEPT
                        ![s].order_times = Append(@, order.timestamp),
                        ![s].daily_orders = @ + 1]
               ELSE rate_limiting_
        /\ submitted' = [submitted EXCEPT ![s] = Append(@, order.timestamp)]
        /\ risk_calls' = risk_calls + 1
        /\ risk_call' = RiskCall("on_order_submitted", order, 0, APPROVED)
        /\ UNCHANGED <<limits_, strategy_limits_, positions_, exposures_,
                       strategy_pnl_, wall_clock, sim_clock, fill_sum,
                       cooldown_sim>>

OnFill ==
    \E s \in Strategies, i \in Instruments, side \in Sides,
       c \in Commissions :
        LET p         == 1
            q         == 1
            fill      == RiskFill(s, i, side, p, q, c, sim_clock)
            key       == <<s, i>>
            trade_pnl == calculate_trade_pnl(fill)
            limits    == get_limits(s)
            triggers  == /\ limits.enable_loss_limits
                         /\ trade_pnl < 0 - SignificantLoss
        IN  /\ risk_calls < MaxRiskCalls
            /\ positions_' =
                   [positions_ EXCEPT ![key] =
                        IF side = "BUY" THEN VolumeAdd(@, q)
                        ELSE VolumeSub(@, q)]
            /\ exposures_' = [exposures_ EXCEPT ![key] = @ + q * p]
            /\ strategy_pnl_' =
                   [strategy_pnl_ EXCEPT
                        ![s].daily_pnl = @ + trade_pnl,
                        ![s].total_pnl = @ + trade_pnl,
                        ![s].cooldown_until =
                            IF triggers
                            THEN wall_clock + limits.loss_cooldown ELSE @]
            /\ fill_sum' = [fill_sum EXCEPT ![key] =
                                IF side = "BUY" THEN @ + q ELSE @ - q]
            /\ cooldown_sim' =
                   [cooldown_sim EXCEPT ![s] =
                        IF triggers
                        THEN fill.timestamp + limits.loss_cooldown ELSE @]
            /\ risk_calls' = risk_calls + 1
            /\ risk_call' = RiskCall("on_fill", fill, wall_clock, APPROVED)
            /\ UNCHANGED <<limits_, strategy_limits_, rate_limiting_,
                           wall_clock, sim_clock, submitted>>

ResetDailyCounters ==
    /\ risk_calls < MaxRiskCalls
    /\ rate_limiting_' =
           [s \in Strategies |-> [order_times |-> <<>>, daily_orders |-> 0]]
    /\ strategy_pnl_' =
           [s \in Strategies |-> [strategy_pnl_[s] EXCEPT !.daily_pnl = 0]]
    /\ risk_calls' = risk_calls + 1
    /\ risk_call' = RiskCall("reset_daily_counters", 0, 0, APPROVED)
    /\ UNCHANGED <<limits_, strategy_limits_, positions_, exposures_,
                   wall_clock, sim_clock, fill_sum, submitted, cooldown_sim>>

SetLimits ==
    \E limits \in LimitsChoices :
        /\ risk_calls < MaxRiskCalls
        /\ limits_' = limits
        /\ risk_calls' = risk_calls + 1
        /\ risk_call' = RiskCall("set_limits", limits, 0, APPROVED)
        /\ UNCHANGED <<strategy_limits_, positions_, exposures_,
                       rate_limiting_, strategy_pnl_, wall_clock, sim_clock,
                       fill_sum, submitted, cooldown_sim>>

SetStrategyLimits ==
    \E s \in Strategies, limits \in LimitsChoices :
        /\ risk_calls < MaxRiskCalls
        /\ strategy_limits_' =
               [t \in DOMAIN strategy_limits_ \cup {s} |->
                    IF t = s THEN limits ELSE strategy_limits_[t]]
        /\ risk_calls' = risk_calls + 1
        /\ risk_call' = RiskCall("set_strategy_limits", s, 0, APPROVED)
        /\ UNCHANGED <<limits_, positions_, exposures_, rate_limiting_,
                       strategy_pnl_, wall_clock, sim_clock, fill_sum,
                       submitted, cooldown_sim>>

\* ------------------------------------------------------ the environment
\* Real time passes between two calls: more than a minute of it.
WallClockTicks ==
    /\ wall_clock + Minute + 1 <= MaxRiskTime
    /\ wall_clock' = wall_clock + Minute + 1
    /\ risk_call' = RiskCall("wall_clock", 0, 0, APPROVED)
    /\ UNCHANGED <<limits_, strategy_limits_, positions_, exposures_,
                   rate_limiting_, strategy_pnl_, sim_clock, fill_sum,
                   submitted, cooldown_sim, risk_calls>>

\* The engine moves the simulation on by more than a minute: later orders
\* and fills carry a later timestamp.
SimClockTicks ==
    /\ sim_clock + Minute + 1 <= MaxRiskTime
    /\ sim_clock' = sim_clock + Minute + 1
    /\ risk_call' = RiskCall("sim_clock", 0, 0, APPROVED)
    /\ UNCHANGED <<limits_, strategy_limits_, positions_, exposures_,
                   rate_limiting_, strategy_pnl_, wall_clock, fill_sum,
                   submitted, cooldown_sim, risk_calls>>


\* ============================================================ TickDataStore
\* include/utils/types.h.  A tick is known by its timestamp, the instrument
\* it names and its last price; the other columns travel with these and
\* are left out.  A series is the sequence of rows of one TickData.
VARIABLES
    data_,        \* TickDataStore::data_ : instrument -> series; its
                  \* domain is the instruments that have an entry
    store_call    \* the TickDataStore call made by the last step

storeVars == <<data_, store_call>>

MaxTicks    == 2     \* ticks held by the store, all instruments together
MaxTickTime == 1     \* tick timestamps and range bounds are 0..MaxTickTime

TickTimes       == 0..MaxTickTime
TickPrices      == {1, 2}
TickInstruments == {"AAPL", "MSFT"}

\* MarketDataTick.
MarketDataTick(timestamp, instrument, last_price) ==
    [timestamp |-> timestamp, instrument |-> instrument,
     last_price |-> last_price]

\* The ticks a caller can pass: the instrument field is the caller's and
\* need not be the instrument the tick is stored under.
InputTicks ==
    {MarketDataTick(t, i, p) : t \in TickTimes, i \in TickInstruments,
                               p \in TickPrices}

\* TickData::add_tick: the columns take the tick's values; the instrument
\* field is not stored.
Row(tick) == [timestamp |-> tick.timestamp, last_price |-> tick.last_price]

\* TickData::get_tick: "instrument will be set by caller".
get_tick(series, index) ==
    MarketDataTick(series[index].timestamp, "", series[index].last_price)

RECURSIVE AddAll(_, _)
AddAll(series, ticks) ==
    IF ticks = <<>> THEN series
    ELSE AddAll(Append(series, Row(Head(ticks))), Tail(ticks))

\* data_[instrument], the entry being created empty when there is none.
Entry(instrument) ==
    IF instrument \in DOMAIN data_ THEN data_[instrument] ELSE <<>>

WithEntry(instrument, series) ==
    [i \in DOMAIN data_ \cup {instrument} |->
        IF i = instrument THEN series ELSE data_[i]]

RECURSIVE TotalTicks(_)
TotalTicks(instruments) ==
    IF instruments = {} THEN 0
    ELSE LET i == CHOOSE x \in instruments : TRUE
         IN  Len(data_[i]) + TotalTicks(instruments \ {i})

\* get_ticks_range: the rows within [start_time, end_time], in stored
\* order, as ticks of the instrument asked for.
RECURSIVE RangeLoop(_, _, _, _, _, _)
RangeLoop(series, instrument, start_time, end_time, i, result) ==
    IF i > Len(series) THEN result
    ELSE RangeLoop(series, instrument, start_time, end_time, i + 1,
             IF /\ series[i].timestamp >= start_time
                /\ series[i].timestamp <= end_time
             THEN Append(result,
                         [get_tick(series, i) EXCEPT !.instrument = instrument])
             ELSE result)

\* A faulty get_ticks_range: the end of the range is left out.
get_ticks_range_open_end(instrument, start_time, end_time) ==
    IF instrument \notin DOMAIN data_ THEN <<>>
    ELSE RangeLoop(data_[instrument], instrument, start_time, end_time - 1,
                   1, <<>>)

get_ticks_range(instrument, start_time, end_time) ==
    IF instrument \notin DOMAIN data_ THEN <<>>
    ELSE RangeLoop(data_[instrument], instrument, start_time, end_time,
                   1, <<>>)

\* get_all_ticks: every series as ticks of its instrument.
get_all_ticks ==
    [i \in DOMAIN data_ |->
        [k \in 1..Len(data_[i]) |->
            [get_tick(data_[i], k) EXCEPT !.instrument = i]]]

\* What std::sort with the comparison timestamps[a] < timestamps[b] may
\* leave: the rows in non-decreasing timestamp order, rows of equal
\* timestamp in any order (std::sort is not a stable sort).
SortOutcomes(series) ==
    {[k \in 1..Len(series) |-> series[indices[k]]] :
        indices \in {p \in Permutations(1..Len(series)) :
                        \A a, b \in 1..Len(series) :
                            a < b => series[p[a]].timestamp
                                         <= series[p[b]].timestamp}}

NoStoreCall ==
    [op |-> "init", instrument |-> "", start_time |-> 0, end_time |-> 0,
     result |-> <<>>]

StoreCall(op, instrument, start_time, end_time, result) ==
    [op |-> op, instrument |-> instrument, start_time |-> start_time,
     end_time |-> end_time, result |-> result]

\* ------------------------------------------------------------ the calls
AddTick ==
    \E instrument \in TickInstruments, tick \in InputTicks :
        /\ TotalTicks(DOMAIN data_) < MaxTicks
        /\ data_' = WithEntry(instrument,
                              Append(Entry(instrument), Row(tick)))
        /\ store_call' = StoreCall("add_tick", instrument, 0, 0, <<>>)

\* add_ticks with a vector of no tick or of one: data_[instrument] creates
\* the entry in both cases.
AddTicks ==
    \E instrument \in TickInstruments,
       ticks \in {<<>>} \cup {<<tick>> : tick \in InputTicks} :
        /\ TotalTicks(DOMAIN data_) + Len(ticks) <= MaxTicks
        /\ data_' = WithEntry(instrument, AddAll(Entry(instrument), ticks))
        /\ store_call' = StoreCall("add_ticks", instrument, 0, 0, <<>>)

GetTicksRange ==
    \E instrument \in TickInstruments, start_time \in TickTimes,
       end_time \in TickTimes :
        /\ store_call' =
               StoreCall("get_ticks_range", instrument, start_time, end_time,
                         get_ticks_range(instrument, start_time, end_time))
        /\ UNCHANGED data_

SortByTimestamp ==
    /\ data_' \in [DOMAIN data_ -> UNION {SortOutcomes(data_[i]) :
                                            i \in DOMAIN data_}]
    /\ \A i \in DOMAIN data_ : data_'[i] \in SortOutcomes(data_[i])
    /\ store_call' = StoreCall("sort_by_timestamp", "", 0, 0, <<>>)

\* =========================================================== BacktestEngine
\* BacktestEngine (declared in include/python/bindings.h, defined in
\* unnamed/part_005) with its TickDataStore data_.  run() is called on one
\* thread and blocks it; pause(), resume() and stop() come from another
\* thread while run() executes, between any two of its reads and writes of
\* the three atomic flags.  The engine is set up (ticks and strategies
\* added, strategies paused) before its first run().
VARIABLES
    strategies_,    \* BacktestEngine::strategies_, as strategy ids
    is_active_,     \* strategy -> StrategyBase::is_active_
    is_running_,    \* BacktestEngine::is_running_
    is_paused_,     \* BacktestEngine::is_paused_
    should_stop_,   \* BacktestEngine::should_stop_
    results_,       \* BacktestEngine::results_
    bucket_order,   \* the order in which data_ (an unordered_map) iterates
                    \* over its instruments
    run_pc,         \* where run() is: "idle" outside it
    all_ticks,      \* run(): the series still to replay, the one being
                    \* replayed first
    received,       \* the on_market_data calls of the run() in progress or
                    \* of the last one: <<strategy, tick>> in call order
    stop_called,    \* stop() was called since this run() began
    late_ticks,     \* ticks whose processing began after that stop()
    runs,           \* the completed run() calls: what each delivered and
                    \* returned
    control_calls,  \* pause(), resume() and stop() calls so far
    engines,        \* BacktestEngine objects constructed so far; the other
                    \* variables are those of the last one
    engine_step     \* the BacktestEngine step made last

engineVars == <<strategies_, is_active_, is_running_, is_paused_,
                should_stop_, results_, bucket_order, run_pc, all_ticks,
                received, stop_called, late_ticks, runs, control_calls,
                engines, engine_step>>

MaxRuns         == 2    \* run() calls in one behaviour
MaxControlCalls == 2    \* pause(), resume() and stop() calls in one behaviour
MaxEngines      == 2    \* BacktestEngine objects in one behaviour

\* BacktestResults{}: no member function of the engine writes results_.
DefaultResults ==
    [total_pnl |-> 0, total_commission |-> 0, total_slippage |-> 0,
     total_trades |-> 0, trade_history |-> <<>>]

\* for (const auto& [instrument, ticks] : data_store_->get_all_ticks()):
\* the series of get_all_ticks in the map's iteration order.
SeriesInMapOrder ==
    [k \in 1..Len(bucket_order) |-> get_all_ticks[bucket_order[k]]]

\* data_[instrument] of add_ticks: a key the unordered_map does not hold yet
\* gets a node of its own bucket, which the map links in front of the nodes
\* it has (the instruments fall into different buckets).
BucketOrderWith(instrument) ==
    IF instrument \in DOMAIN data_ THEN bucket_order
    ELSE <<instrument>> \o bucket_order

\* for (auto& strat : strategies_) strat->on_market_data(event).
RECURSIVE Deliveries(_, _)
Deliveries(strategies, tick) ==
    IF strategies = <<>> THEN <<>>
    ELSE <<[strategy |-> Head(strategies), tick |-> tick]>>
             \o Deliveries(Tail(strategies), tick)

NoEngineStep == [op |-> "init", arg |-> <<>>]

EngineStep(op, arg) == [op |-> op, arg |-> arg]

\* run() is not executing, and this engine has not run yet.
SetUp ==
    /\ run_pc = "idle"
    /\ \A k \in 1..Len(runs) : runs[k].engine # engines

\* What a run() leaves in runs: the engine, a copy of what it replayed and to
\* whom, what it delivered and what results() gives after it.
RunRecord(stopped, aborted) ==
    [engine |-> engines, data |-> data_, strategies |-> strategies_,
     active |-> is_active_, received |-> IF aborted THEN <<>> ELSE received,
     results |-> results_, stopped |-> stopped, aborted |-> aborted]

\* ------------------------------------------------------------- the set-up
\* add_tick_data(instrument, ticks) with one tick, of last price 1:
\* data_store_->add_ticks.
AddTickData ==
    \E instrument \in TickInstruments, t \in TickTimes :
        LET ticks == <<MarketDataTick(t, instrument, 1)>> IN
        /\ SetUp
        /\ TotalTicks(DOMAIN data_) + Len(ticks) <= MaxTicks
        /\ data_' = WithEntry(instrument, AddAll(Entry(instrument), ticks))
        /\ bucket_order' = BucketOrderWith(instrument)
        /\ store_call' = StoreCall("add_ticks", instrument, 0, 0, <<>>)
        /\ engine_step' = EngineStep("add_tick_data", <<instrument>>)
        /\ UNCHANGED <<strategies_, is_active_, is_running_, is_paused_,
                       should_stop_, results_, run_pc, all_ticks, received,
                       stop_called, late_ticks, runs, control_calls,
                       engines>>

AddStrategy ==
    \E strategy \in Strategies :
        /\ SetUp
        /\ \A k \in 1..Len(strategies_) : strategies_[k] # strategy
        /\ strategies_' = Append(strategies_, strategy)
        /\ engine_step' = EngineStep("add_strategy", <<strategy>>)
        /\ UNCHANGED <<data_, store_call, is_active_, is_running_,
                       is_paused_, should_stop_, results_, bucket_order,
                       run_pc, all_ticks, received, stop_called, late_ticks,
                       runs, control_calls, engines>>

\* StrategyBase::set_active(false) on a strategy of the engine.
SetActive ==
    \E k \in 1..Len(strategies_) :
        /\ SetUp
        /\ is_active_[strategies_[k]]
        /\ is_active_' = [is_active_ EXCEPT ![strategies_[k]] = FALSE]
        /\ engine_step' = EngineStep("set_active", <<strategies_[k]>>)
        /\ UNCHANGED <<data_, store_call, strategies_, is_running_,
                       is_paused_, should_stop_, results_, bucket_order,
                       run_pc, all_ticks, received, stop_called, late_ticks,
                       runs, control_calls, engines>>

\* ------------------------------------------------------------------ run()
\* if (!data_store_ || strategies_.empty()) return;
Run ==
    /\ run_pc = "idle"
    /\ Len(runs) < MaxRuns
    /\ IF strategies_ = <<>>
       THEN /\ engine_step' = EngineStep("run", <<"aborted">>)
            /\ runs' = Append(runs, RunRecord(FALSE, TRUE))
            /\ UNCHANGED <<run_pc, received, stop_called, late_ticks>>
       ELSE /\ run_pc' = "set_running"
            /\ received' = <<>>
            /\ stop_called' = FALSE
            /\ late_ticks' = {}
            /\ engine_step' = EngineStep("run", <<"started">>)
            /\ UNCHANGED runs
    /\ UNCHANGED <<data_, store_call, strategies_, is_active_, is_running_,
                   is_paused_, should_stop_, results_, bucket_order,
                   all_ticks, control_calls, engines>>

\* is_running_ = true;
RunSetsRunning ==
    /\ run_pc = "set_running"
    /\ is_running_' = TRUE
    /\ run_pc' = "set_paused"
    /\ engine_step' = EngineStep("is_running_ = true", <<>>)
    /\ UNCHANGED <<data_, store_call, strategies_, is_active_, is_paused_,
                   should_stop_, results_, bucket_order, all_ticks, received,
                   stop_called, late_ticks, runs, control_calls, engines>>

\* is_paused_ = false;
RunClearsPaused ==
    /\ run_pc = "set_paused"
    /\ is_paused_' = FALSE
    /\ run_pc' = "set_stop"
    /\ engine_step' = EngineStep("is_paused_ = false", <<>>)
    /\ UNCHANGED <<data_, store_call, strategies_, is_active_, is_running_,
                   should_stop_, results_, bucket_order, all_ticks, received,
                   stop_called, late_ticks, runs, control_calls, engines>>

\* should_stop_ = false; and the call of get_all_ticks() that the outer
\* loop starts with.
RunClearsStop ==
    /\ run_pc = "set_stop"
    /\ should_stop_' = FALSE
    /\ all_ticks' = SeriesInMapOrder
    /\ run_pc' = "loop"
    /\ engine_step' = EngineStep("should_stop_ = false", <<>>)
    /\ UNCHANGED <<data_, store_call, strategies_, is_active_, is_running_,
                   is_paused_, results_, bucket_order, received, stop_called,
                   late_ticks, runs, control_calls, engines>>

\* The head of the two loops: the next series when this one is at its end
\* or should_stop_ breaks the inner loop, else the next tick.
RunLoop ==
    /\ run_pc = "loop"
    /\ IF all_ticks = <<>>
       THEN /\ run_pc' = "finish"
            /\ UNCHANGED <<all_ticks, late_ticks>>
       ELSE IF Head(all_ticks) = <<>> \/ should_stop_
       THEN /\ all_ticks' = Tail(all_ticks)
            /\ UNCHANGED <<run_pc, late_ticks>>
       ELSE /\ run_pc' = "wait"
            /\ late_ticks' = IF stop_called
                             THEN late_ticks \cup {Head(Head(all_ticks))}
                             ELSE late_ticks
            /\ UNCHANGED all_ticks
    /\ engine_step' = EngineStep("loop", <<>>)
    /\ UNCHANGED <<data_, store_call, strategies_, is_active_, is_running_,
                   is_paused_, should_stop_, results_, bucket_order, received,
                   stop_called, runs, control_calls, engines>>

\* while (is_paused_) sleep_for(10ms); is left when is_paused_ is read
\* false; then every strategy's on_market_data is called with the tick.
RunProcessesTick ==
    /\ run_pc = "wait"
    /\ ~is_paused_
    /\ received' = received \o Deliveries(strategies_, Head(Head(all_ticks)))
    /\ all_ticks' = <<Tail(Head(all_ticks))>> \o Tail(all_ticks)
    /\ run_pc' = "loop"
    /\ engine_step' = EngineStep("on_market_data", <<Head(Head(all_ticks))>>)
    /\ UNCHANGED <<data_, store_call, strategies_, is_active_, is_running_,
                   is_paused_, should_stop_, results_, bucket_order,
                   stop_called, late_ticks, runs, control_calls, engines>>

\* is_running_ = false; and run() returns.
RunReturns ==
    /\ run_pc = "finish"
    /\ is_running_' = FALSE
    /\ run_pc' = "idle"
    /\ runs' = Append(runs, RunRecord(stop_called, FALSE))
    /\ engine_step' = EngineStep("run returns", <<>>)
    /\ UNCHANGED <<data_, store_call, strategies_, is_active_, is_paused_,
                   should_stop_, results_, bucket_order, all_ticks, received,
                   stop_called, late_ticks, control_calls, engines>>

\* The steps of the thread inside run().
RunThread ==
    \/ RunSetsRunning
    \/ RunClearsPaused
    \/ RunClearsStop
    \/ RunLoop
    \/ RunProcessesTick
    \/ RunReturns

\* run_range(start_time, end_time): the body is empty.
RunRange ==
    \E start_time \in TickTimes, end_time \in TickTimes :
        /\ SetUp
        /\ engine_step' = EngineStep("run_range", <<start_time, end_time>>)
        /\ UNCHANGED <<data_, store_call, strategies_, is_active_,
                       is_running_, is_paused_, should_stop_, results_,
                       bucket_order, run_pc, all_ticks, received,
                       stop_called, late_ticks, runs, control_calls, engines>>

\* BacktestEngine(): another engine, with a TickDataStore of its own, once
\* the one before has run.
NewEngine ==
    /\ run_pc = "idle"
    /\ engines < MaxEngines
    /\ \E k \in 1..Len(runs) : runs[k].engine = engines
    /\ engines' = engines + 1
    /\ data_' = <<>>
    /\ bucket_order' = <<>>
    /\ store_call' = NoStoreCall
    /\ strategies_' = <<>>
    /\ is_active_' = [s \in Strategies |-> TRUE]
    /\ is_running_' = FALSE
    /\ is_paused_' = FALSE
    /\ should_stop_' = FALSE
    /\ results_' = DefaultResults
    /\ all_ticks' = <<>>
    /\ received' = <<>>
    /\ stop_called' = FALSE
    /\ late_ticks' = {}
    /\ engine_step' = EngineStep("BacktestEngine", <<>>)
    /\ UNCHANGED <<run_pc, runs, control_calls>>

\* ------------------------------------------------------------ the control
\* pause(), resume() and stop(), called while run() executes.
PauseEngine ==
    /\ run_pc # "idle"
    /\ control_calls < MaxControlCalls
    /\ is_paused_' = TRUE
    /\ control_calls' = control_calls + 1
    /\ engine_step' = EngineStep("pause", <<>>)
    /\ UNCHANGED <<data_, store_call, strategies_, is_active_, is_running_,
                   should_stop_, results_, bucket_order, run_pc, all_ticks,
                   received, stop_called, late_ticks, runs, engines>>

ResumeEngine ==
    /\ run_pc # "idle"
    /\ control_calls < MaxControlCalls
    /\ is_paused_' = FALSE
    /\ control_calls' = control_calls + 1
    /\ engine_step' = EngineStep("resume", <<>>)
    /\ UNCHANGED <<data_, store_call, strategies_, is_active_, is_running_,
                   should_stop_, results_, bucket_order, run_pc, all_ticks,
                   received, stop_called, late_ticks, runs, engines>>

StopEngine ==
    /\ run_pc # "idle"
    /\ control_calls < MaxControlCalls
    /\ should_stop_' = TRUE
    /\ stop_called' = TRUE
    /\ control_calls' = control_calls + 1
    /\ engine_step' = EngineStep("stop", <<>>)
    /\ UNCHANGED <<data_, store_call, strategies_, is_active_, is_running_,
                   is_paused_, results_, bucket_order, run_pc, all_ticks,
                   received, late_ticks, runs, engines>>

\* =========================================================== SlippageModel
\* LinearSlippageModel and SqrtSlippageModel (execution/cost_model.h).  The
\* prices and rates are doubles: here a rate is a whole number of
\* ten-thousandths, and a result is the exact fraction num / den of price
\* times rate, den > 0, so that no rounding enters its sign or its value.
\* The volumes are squares, which makes the square root of their ratio the
\* ratio of their roots.
VARIABLES
    slippage_model,  \* the model object: its class and its two members
    slippage_call    \* the calculate_slippage call made last, with its result

slipVars == <<slippage_model, slippage_call>>

SlipRates   == {0 - 1, 0, 1, 100}   \* base_rate_, impact_rate_ and
                                    \* impact_coefficient_
SlipPrices  == {0, 1, 100}          \* reference_price
SlipVolumes == {0, 1, 4}            \* quantity and avg_daily_volume

\* LinearSlippageModel(base_rate, impact_rate).
LinearSlippageModel(base_rate, impact_rate) ==
    [class |-> "LinearSlippageModel", base_rate_ |-> base_rate,
     impact_rate_ |-> impact_rate]

\* SqrtSlippageModel(base_rate, impact_coefficient).
SqrtSlippageModel(base_rate, impact_coefficient) ==
    [class |-> "SqrtSlippageModel", base_rate_ |-> base_rate,
     impact_coefficient_ |-> impact_coefficient]

SlippageModels ==
    {LinearSlippageModel(b, i) : b \in SlipRates, i \in SlipRates}
        \cup {SqrtSlippageModel(b, c) : b \in SlipRates, c \in SlipRates}

\* std::sqrt of a square.
Sqrt(n) == CHOOSE r \in 0..n : r * r = n

\* LinearSlippageModel::calculate_slippage.
\*   if (avg_daily_volume == 0) return base_rate_ * reference_price;
\*   volume_ratio = quantity / avg_daily_volume;
\*   slippage_rate = base_rate_ + impact_rate_ * volume_ratio;
\*   return -std::abs(slippage_rate * reference_price);
linear_calculate_slippage(model, quantity, reference_price, avg_daily_volume) ==
    IF avg_daily_volume = 0
    THEN [num |-> model.base_rate_ * reference_price, den |-> 1]
    ELSE [num |-> 0 - Abs((model.base_rate_ * avg_daily_volume
                            + model.impact_rate_ * quantity)
                           * reference_price),
          den |-> avg_daily_volume]

\* SqrtSlippageModel::calculate_slippage: the same with
\*   slippage_rate = base_rate_ + impact_coefficient_ * std::sqrt(volume_ratio).
sqrt_calculate_slippage(model, quantity, reference_price, avg_daily_volume) ==
    IF avg_daily_volume = 0
    THEN [num |-> model.base_rate_ * reference_price, den |-> 1]
    ELSE [num |-> 0 - Abs((model.base_rate_ * Sqrt(avg_daily_volume)
                            + model.impact_coefficient_ * Sqrt(quantity))
                           * reference_price),
          den |-> Sqrt(avg_daily_volume)]

NoSlippageCall ==
    [op |-> "init", quantity |-> 0, reference_price |-> 0,
     avg_daily_volume |-> 0, result |-> [num |-> 0, den |-> 1]]

SlippageCall(quantity, reference_price, avg_daily_volume, result) ==
    [op |-> "calculate_slippage", quantity |-> quantity,
     reference_price |-> reference_price,
     avg_daily_volume |-> avg_daily_volume, result |-> result]

\* calculate_slippage(instrument, side, quantity, reference_price,
\* avg_daily_volume) on a LinearSlippageModel; instrument and side are not
\* read.
LinearCalculateSlippage ==
    \E quantity \in SlipVolumes, reference_price \in SlipPrices,
       avg_daily_volume \in SlipVolumes :
        /\ slippage_model.class = "LinearSlippageModel"
        /\ slippage_call' =
               SlippageCall(quantity, reference_price, avg_daily_volume,
                   linear_calculate_slippage(slippage_model, quantity,
                       reference_price, avg_daily_volume))
        /\ UNCHANGED slippage_model

\* The same call on a SqrtSlippageModel.
SqrtCalculateSlippage ==
    \E quantity \in SlipVolumes, reference_price \in SlipPrices,
       avg_daily_volume \in SlipVolumes :
        /\ slippage_model.class = "SqrtSlippageModel"
        /\ slippage_call' =
               SlippageCall(quantity, reference_price, avg_daily_volume,
                   sqrt_calculate_slippage(slippage_model, quantity,
                       reference_price, avg_daily_volume))
        /\ UNCHANGED slippage_model

\* ================================================= TickDataStore::TickData
\* include/utils/types.h, the store at the granularity of its columns.  A
\* TickData is twelve parallel vectors; three of them are kept here, one of
\* each element type that reorder_vectors moves: timestamps (Timestamp),
\* last_prices (Price) and date (std::string).
VARIABLES
    columns,       \* TickDataStore::data_ : instrument -> TickData
    appended,      \* per instrument, the ticks appended under it so far,
                   \* in the order of the calls
    column_call    \* the TickDataStore call made by the last step

columnVars == <<columns, appended, column_call>>

MaxRows == 3     \* rows held by the store, all instruments together

ColumnTimes  == {0, 1}
ColumnPrices == {1, 2}
Dates        == {"2024-01-02", "2024-01-03"}

\* MarketDataTick with its date.
DatedTick(timestamp, instrument, last_price, date) ==
    [timestamp |-> timestamp, instrument |-> instrument,
     last_price |-> last_price, date |-> date]

DatedTicks ==
    {DatedTick(t, i, p, d) : t \in ColumnTimes, i \in TickInstruments,
                             p \in ColumnPrices, d \in Dates}

\* TickData(): every column empty.
NewTickData == [timestamps |-> <<>>, last_prices |-> <<>>, date |-> <<>>]

\* TickData::size.
TickData_size(ticks) == Len(ticks.timestamps)

\* TickData::add_tick: one push_back per column.
TickData_add_tick(ticks, tick) ==
    [timestamps  |-> Append(ticks.timestamps, tick.timestamp),
     last_prices |-> Append(ticks.last_prices, tick.last_price),
     date        |-> Append(ticks.date, tick.date)]

\* TickData::get_tick; index counts from 1 here.
TickData_get_tick(ticks, index) ==
    DatedTick(ticks.timestamps[index], "", ticks.last_prices[index],
              ticks.date[index])

RECURSIVE TickData_add_all(_, _)
TickData_add_all(ticks, vector) ==
    IF vector = <<>> THEN ticks
    ELSE TickData_add_all(TickData_add_tick(ticks, Head(vector)),
                          Tail(vector))

\* data_[instrument], the entry being created empty when there is none.
ColumnEntry(instrument) ==
    IF instrument \in DOMAIN columns THEN columns[instrument]
    ELSE NewTickData

WithColumnEntry(instrument, ticks) ==
    [i \in DOMAIN columns \cup {instrument} |->
        IF i = instrument THEN ticks ELSE columns[i]]

Appended(instrument) ==
    IF instrument \in DOMAIN appended THEN appended[instrument] ELSE <<>>

RECURSIVE Stamp(_, _)
Stamp(vector, instrument) ==
    IF vector = <<>> THEN <<>>
    ELSE <<[Head(vector) EXCEPT !.instrument = instrument]>>
             \o Stamp(Tail(vector), instrument)

WithAppended(instrument, vector) ==
    [i \in DOMAIN appended \cup {instrument} |->
        IF i = instrument THEN Appended(i) \o Stamp(vector, i)
        ELSE appended[i]]

RECURSIVE TotalRows(_)
TotalRows(instruments) ==
    IF instruments = {} THEN 0
    ELSE LET i == CHOOSE x \in instruments : TRUE
         IN  TickData_size(columns[i]) + TotalRows(instruments \ {i})

\* get_tick_at: none for an unknown instrument or an index past the end;
\* index counts from 1 here.
get_tick_at(instrument, index) ==
    IF instrument \notin DOMAIN columns
          \/ index > TickData_size(columns[instrument])
    THEN None
    ELSE [TickData_get_tick(columns[instrument], index)
              EXCEPT !.instrument = instrument]

\* The indices std::sort may leave from 0, 1, ..., size - 1 under the
\* comparison timestamps[a] < timestamps[b]: the timestamps in
\* non-decreasing order, indices of equal timestamps in any order.
SortedIndices(ticks) ==
    {p \in Permutations(1..TickData_size(ticks)) :
        \A a, b \in 1..TickData_size(ticks) :
            a < b => ticks.timestamps[p[a]] <= ticks.timestamps[p[b]]}

\* One outcome of the sort of indices for each of the instruments.
RECURSIVE SortChoices(_)
SortChoices(instruments) ==
    IF instruments = {} THEN {<<>>}
    ELSE LET i == CHOOSE x \in instruments : TRUE
         IN  {(i :> p) @@ choice :
                 p \in SortedIndices(columns[i]),
                 choice \in SortChoices(instruments \ {i})}

\* What std::move(vec[idx]) leaves in vec[idx]: the value for an arithmetic
\* element, an empty string for a std::string.
MovedFrom(value, is_string) == IF is_string THEN "" ELSE value

\* The lambda reorder of reorder_vectors: temp takes vec[idx] for each idx
\* of indices, in order, then replaces vec.
RECURSIVE ReorderLoop(_, _, _, _, _)
ReorderLoop(vec, indices, k, temp, is_string) ==
    IF k > Len(indices) THEN temp
    ELSE ReorderLoop([vec EXCEPT ![indices[k]] = MovedFrom(@, is_string)],
                     indices, k + 1, Append(temp, vec[indices[k]]),
                     is_string)

reorder(vec, indices, is_string) ==
    ReorderLoop(vec, indices, 1, <<>>, is_string)

\* A faulty reorder_vectors: the date column is left as it was.
reorder_vectors_without_date(ticks, indices) ==
    [timestamps  |-> reorder(ticks.timestamps, indices, FALSE),
     last_prices |-> reorder(ticks.last_prices, indices, FALSE),
     date        |-> ticks.date]

reorder_vectors(ticks, indices) ==
    [timestamps  |-> reorder(ticks.timestamps, indices, FALSE),
     last_prices |-> reorder(ticks.last_prices, indices, FALSE),
     date        |-> reorder(ticks.date, indices, TRUE)]

NoColumnCall == [op |-> "init", instrument |-> ""]

ColumnCall(op, instrument) == [op |-> op, instrument |-> instrument]

\* ------------------------------------------------------------ the calls
\* The ticks passed name the instrument they are stored under.
ColumnAddTick ==
    \E instrument \in TickInstruments, tick \in DatedTicks :
        /\ tick.instrument = instrument
        /\ TotalRows(DOMAIN columns) < MaxRows
        /\ columns' = WithColumnEntry(instrument,
                          TickData_add_tick(ColumnEntry(instrument), tick))
        /\ appended' = WithAppended(instrument, <<tick>>)
        /\ column_call' = ColumnCall("add_tick", instrument)

\* add_ticks with a vector of two ticks.
ColumnAddTicks ==
    \E instrument \in TickInstruments, first \in DatedTicks,
       second \in DatedTicks :
        /\ first.instrument = instrument
        /\ second.instrument = instrument
        /\ TotalRows(DOMAIN columns) + 2 <= MaxRows
        /\ columns' = WithColumnEntry(instrument,
                          TickData_add_all(ColumnEntry(instrument),
                                           <<first, second>>))
        /\ appended' = WithAppended(instrument, <<first, second>>)
        /\ column_call' = ColumnCall("add_ticks", instrument)

\* sort_by_timestamp: for each instrument, indices sorted by timestamp,
\* then reorder_vectors.
ColumnSortByTimestamp ==
    /\ \E choice \in SortChoices(DOMAIN columns) :
          columns' = [i \in DOMAIN columns |->
                         reorder_vectors(columns[i], choice[i])]
    /\ column_call' = ColumnCall("sort_by_timestamp", "")
    /\ UNCHANGED appended

\* ============================================================== SMAStrategy
\* unnamed/part_004 and include/strategy/strategy_base.h.  One SMAStrategy
\* fed with market data; another strategy of the process may call
\* execute_order in between, which draws its order ids from the same
\* function-local static.  Prices are doubles in the source; the ticks here
\* carry small whole prices, whose sums and means a double holds exactly.
VARIABLES
    short_period_,      \* SMAStrategy::short_period_
    long_period_,       \* SMAStrategy::long_period_
    price_histories_,   \* SMAStrategy::price_histories_ :
                        \* instrument -> PriceHistory
    strategy_positions, \* StrategyBase::positions_ of the SMAStrategy:
                        \* instrument -> quantity
    trade_count_,       \* StrategyBase::trade_count_ of the SMAStrategy
    next_id,            \* the static next_id of StrategyBase::execute_order
    executed,           \* the orders the SMAStrategy has executed, in order
    sma_ticks,          \* market data events handled so far
    other_orders,       \* orders executed by the other strategy so far
    sma_call            \* the call made by the last step

smaVars == <<short_period_, long_period_, price_histories_,
             strategy_positions, trade_count_, next_id, executed,
             sma_ticks, other_orders, sma_call>>

MaxSmaTicks    == 5     \* market data events handled by the strategy
MaxOtherOrders == 1     \* orders executed by the other strategy

SmaPrices      == {1, 2}
SmaInstruments == {"AAPL", "MSFT"}

\* The (short_period, long_period) a strategy is constructed with: short
\* below long, and short above long, for which the short window starts
\* before the beginning of the history.
SmaPeriods == {<<1, 2>>, <<2, 3>>, <<2, 1>>}

\* PriceHistory(): no price, has_signal false.
NewPriceHistory == [prices |-> <<>>, has_signal |-> FALSE]

\* price_histories_[instrument], created when there is none.
PriceHistoryOf(instrument) ==
    IF instrument \in DOMAIN price_histories_
    THEN price_histories_[instrument] ELSE NewPriceHistory

\* positions_[instrument].quantity, Position() when there is none.
QuantityOf(instrument) ==
    IF instrument \in DOMAIN strategy_positions
    THEN strategy_positions[instrument] ELSE 0

RECURSIVE SumPrices(_)
SumPrices(prices) ==
    IF prices = <<>> THEN 0 ELSE Head(prices) + SumPrices(Tail(prices))

\* hist.prices after push_back(price) and the erase of the first element
\* when the size exceeds long_period_.
PushPrice(prices, price) ==
    LET pushed == Append(prices, price)
    IN  IF Len(pushed) > long_period_ THEN Tail(pushed) ELSE pushed

\* std::accumulate(end() - short_period_, end(), 0.0): the sum of the last
\* short_period_ prices.  With short_period_ above the size the range
\* starts before begin(): the read is out of bounds and the sum is any
\* value.
ShortSums(prices) ==
    IF short_period_ <= Len(prices)
    THEN {SumPrices(SubSeq(prices, Len(prices) - short_period_ + 1,
                           Len(prices)))}
    ELSE 0..(2 * short_period_)

\* short_sma > long_sma and short_sma < long_sma, for the sums of the two
\* windows: sum / period compared without the division.
ShortAbove(short_sum, long_sum) ==
    short_sum * long_period_ > long_sum * short_period_

ShortBelow(short_sum, long_sum) ==
    short_sum * long_period_ < long_sum * short_period_

\* The order on_market_data executes for the two sums: a BUY, a SELL or
\* none.
Signal(has_signal, short_sum, long_sum) ==
    IF ~has_signal /\ ShortAbove(short_sum, long_sum) THEN "BUY"
    ELSE IF has_signal /\ ShortBelow(short_sum, long_sum) THEN "SELL"
    ELSE None

\* A faulty HasSignalAfter: a BUY leaves has_signal as it was.
HasSignalAfter_buy_forgotten(has_signal, side) ==
    IF side = "SELL" THEN FALSE ELSE has_signal

\* has_signal after the branch taken.
HasSignalAfter(has_signal, side) ==
    IF side = "BUY" THEN TRUE
    ELSE IF side = "SELL" THEN FALSE
    ELSE has_signal

\* The Order that execute_order builds.
ExecutedOrder(id, instrument, side, price, quantity) ==
    [id |-> id, instrument |-> instrument, side |-> side, price |-> price,
     quantity |-> quantity]

NoSmaCall == [op |-> "init", instrument |-> "", price |-> 0, side |-> None]

SmaCall(op, instrument, price, side) ==
    [op |-> op, instrument |-> instrument, price |-> price, side |-> side]

\* ------------------------------------------------------------ the calls
\* SMAStrategy::on_market_data for a tick of the instrument at the price;
\* execute_order(instrument, side, price, 1) is part of it.
OnMarketData ==
    \E instrument \in SmaInstruments, price \in SmaPrices :
        LET hist   == PriceHistoryOf(instrument)
            prices == PushPrice(hist.prices, price)
        IN  /\ sma_ticks < MaxSmaTicks
            /\ sma_ticks' = sma_ticks + 1
            /\ IF Len(prices) < long_period_
               THEN /\ price_histories_' =
                          [i \in DOMAIN price_histories_ \cup {instrument} |->
                              IF i = instrument
                              THEN [hist EXCEPT !.prices = prices]
                              ELSE price_histories_[i]]
                    /\ sma_call' = SmaCall("on_market_data", instrument,
                                           price, None)
                    /\ UNCHANGED <<strategy_positions, trade_count_,
                                   next_id, executed>>
               ELSE \E short_sum \in ShortSums(prices) :
                      LET side == Signal(hist.has_signal, short_sum,
                                         SumPrices(prices))
                      IN  /\ price_histories_' =
                                [i \in DOMAIN price_histories_
                                          \cup {instrument} |->
                                    IF i = instrument
                                    THEN [prices     |-> prices,
                                          has_signal |->
                                              HasSignalAfter(hist.has_signal,
                                                             side)]
                                    ELSE price_histories_[i]]
                          /\ sma_call' = SmaCall("on_market_data",
                                                 instrument, price, side)
                          /\ IF side = None
                             THEN UNCHANGED <<strategy_positions,
                                              trade_count_, next_id,
                                              executed>>
                             ELSE /\ strategy_positions' =
                                        [i \in DOMAIN strategy_positions
                                                  \cup {instrument} |->
                                            IF i # instrument
                                            THEN strategy_positions[i]
                                            ELSE IF side = "BUY"
                                            THEN VolumeAdd(
                                                   QuantityOf(instrument), 1)
                                            ELSE VolumeSub(
                                                   QuantityOf(instrument), 1)]
                                  /\ trade_count_' = trade_count_ + 1
                                  /\ next_id' = next_id + 1
                                  /\ executed' =
                                        Append(executed,
                                               ExecutedOrder(next_id,
                                                   instrument, side, price,
                                                   1))
            /\ UNCHANGED <<short_period_, long_period_, other_orders>>

\* StrategyBase::execute_order called by another strategy: it takes the
\* next id; its positions_ and trade_count_ are its own.
OtherExecuteOrder ==
    /\ other_orders < MaxOtherOrders
    /\ other_orders' = other_orders + 1
    /\ next_id' = next_id + 1
    /\ sma_call' = SmaCall("other_execute_order", "", 0, None)
    /\ UNCHANGED <<short_period_, long_period_, price_histories_,
                   strategy_positions, trade_count_, executed, sma_ticks>>

\* ========================================================= specifications
vars == <<bids_, asks_, next_order_id_, matching_algo_, book_calls,
          book_call,
          current_time_, scheduled_events_, mutex_, advance_depth, clock_pc,
          next_event_seq, fired, pending_at_advance, advance_target,
          clock_calls, clock_step,
          subscribers_, all_subscribers_, handle_to_type_, next_handle_,
          event_queue_, running_, bus_mutex_, bus_pc, bus_event, todo,
          local_queue, main_call, delivered, issued, next_event_id, bus_calls,
          bus_step,
          limits_, strategy_limits_, positions_, exposures_, rate_limiting_,
          strategy_pnl_, wall_clock, sim_clock, fill_sum, submitted,
          cooldown_sim, risk_calls, risk_call,
          data_, store_call,
          strategies_, is_active_, is_running_, is_paused_, should_stop_,
          results_, bucket_order, run_pc, all_ticks, received, stop_called,
          late_ticks, runs, control_calls, engines, engine_step,
          slippage_model, slippage_call,
          columns, appended, column_call,
          short_period_, long_period_, price_histories_,
          strategy_positions, trade_count_, next_id, executed, sma_ticks,
          other_orders, sma_call>>

\* Everything outside the order book.
notBookVars == <<clockVars, busVars, riskVars, storeVars, engineVars,
                 slipVars, columnVars, smaVars>>

\* Everything outside the clock.
notClockVars == <<bookVars, busVars, riskVars, storeVars, engineVars,
                  slipVars, columnVars, smaVars>>

\* Everything outside the event bus.
notBusVars == <<bookVars, clockVars, riskVars, storeVars, engineVars,
                slipVars, columnVars, smaVars>>

\* Everything outside the risk manager.
notRiskVars == <<bookVars, clockVars, busVars, storeVars, engineVars,
                 slipVars, columnVars, smaVars>>

\* Everything outside the tick store.
notStoreVars == <<bookVars, clockVars, busVars, riskVars, engineVars,
                  slipVars, columnVars, smaVars>>

\* Everything outside the engine and its tick store.
notEngineVars == <<bookVars, clockVars, busVars, riskVars, slipVars,
                   columnVars, smaVars>>

\* Everything outside the slippage model.
notSlipVars == <<bookVars, clockVars, busVars, riskVars, storeVars,
                 engineVars, columnVars, smaVars>>

\* Everything outside the columns of the tick store.
notColumnVars == <<bookVars, clockVars, busVars, riskVars, storeVars,
                   engineVars, slipVars, smaVars>>

\* Everything outside the SMA strategy.
notSmaVars == <<bookVars, clockVars, busVars, riskVars, storeVars,
                engineVars, slipVars, columnVars>>

\* The order book alone: an OrderBook and the calls made on it.
BookNext ==
    \/ AddOrder /\ UNCHANGED notBookVars
    \/ RemoveOrder /\ UNCHANGED notBookVars
    \/ ExecuteMarketOrder /\ UNCHANGED notBookVars
    \/ ExecuteLimitOrder /\ UNCHANGED notBookVars

\* An empty book; the other components stay as constructed.
BookInit ==
    /\ bids_ = EmptyMap
    /\ asks_ = EmptyMap
    /\ next_order_id_ = 1
    /\ matching_algo_ = "PRICE_TIME"
    /\ book_calls = 0
    /\ book_call = BookCall("init", NoOrder, <<>>)
    /\ current_time_ = 0
    /\ scheduled_events_ = {}
    /\ mutex_ = FALSE
    /\ advance_depth = 0
    /\ clock_pc = "idle"
    /\ next_event_seq = 1
    /\ fired = <<>>
    /\ pending_at_advance = {}
    /\ advance_target = 0
    /\ clock_calls = 0
    /\ clock_step = NoClockStep
    /\ subscribers_ = [kind \in Kinds |-> <<>>]
    /\ all_subscribers_ = <<>>
    /\ handle_to_type_ = <<>>
    /\ next_handle_ = 1
    /\ event_queue_ = <<>>
    /\ running_ = FALSE
    /\ bus_mutex_ = "free"
    /\ bus_pc = [main |-> "idle", worker |-> "none"]
    /\ bus_event = [th \in BusThreads |-> NoEvent]
    /\ todo = <<>>
    /\ local_queue = <<>>
    /\ main_call = "none"
    /\ delivered = <<>>
    /\ issued = {}
    /\ next_event_id = 1
    /\ bus_calls = 0
    /\ bus_step = NoBusStep
    /\ limits_ = RiskLimits(TRUE, TRUE, TRUE, TRUE)
    /\ strategy_limits_ = <<>>
    /\ positions_ = [key \in Pairs |-> 0]
    /\ exposures_ = [key \in Pairs |-> 0]
    /\ rate_limiting_ =
           [s \in Strategies |-> [order_times |-> <<>>, daily_orders |-> 0]]
    /\ strategy_pnl_ =
           [s \in Strategies |->
                [daily_pnl |-> 0, total_pnl |-> 0, cooldown_until |-> 0]]
    /\ wall_clock = 0
    /\ sim_clock = 0
    /\ fill_sum = [key \in Pairs |-> 0]
    /\ submitted = [s \in Strategies |-> <<>>]
    /\ cooldown_sim = [s \in Strategies |-> 0]
    /\ risk_calls = 0
    /\ risk_call = NoRiskCall
    /\ data_ = <<>>
    /\ store_call = NoStoreCall
    /\ bucket_order = <<>>
    /\ strategies_ = <<>>
    /\ is_active_ = [s \in Strategies |-> TRUE]
    /\ is_running_ = FALSE
    /\ is_paused_ = FALSE
    /\ should_stop_ = FALSE
    /\ results_ = DefaultResults
    /\ run_pc = "idle"
    /\ all_ticks = <<>>
    /\ received = <<>>
    /\ stop_called = FALSE
    /\ late_ticks = {}
    /\ runs = <<>>
    /\ control_calls = 0
    /\ engines = 1
    /\ engine_step = NoEngineStep
    /\ slippage_model = LinearSlippageModel(1, 100)
    /\ slippage_call = NoSlippageCall
    /\ columns = <<>>
    /\ appended = <<>>
    /\ column_call = NoColumnCall
    /\ short_period_ = 1
    /\ long_period_ = 2
    /\ price_histories_ = <<>>
    /\ strategy_positions = <<>>
    /\ trade_count_ = 0
    /\ next_id = 1
    /\ executed = <<>>
    /\ sma_ticks = 0
    /\ other_orders = 0
    /\ sma_call = NoSmaCall

BookSpec == BookInit /\ [][BookNext]_vars

\* The clock alone: a SimClock, the calls made on it and its callbacks.
ClockNext ==
    \/ AdvanceTo /\ UNCHANGED notClockVars
    \/ AdvanceBy /\ UNCHANGED notClockVars
    \/ Schedule /\ UNCHANGED notClockVars
    \/ ScheduleDelay /\ UNCHANGED notClockVars
    \/ Reset /\ UNCHANGED notClockVars
    \/ PopEvent /\ UNCHANGED notClockVars
    \/ ReturnFromAdvance /\ UNCHANGED notClockVars
    \/ CallbackReturns /\ UNCHANGED notClockVars
    \/ CallbackAdvanceTo /\ UNCHANGED notClockVars
    \/ CallbackAdvanceBy /\ UNCHANGED notClockVars
    \/ CallbackSchedule /\ UNCHANGED notClockVars
    \/ CallbackScheduleDelay /\ UNCHANGED notClockVars
    \/ CallbackReset /\ UNCHANGED notClockVars

\* SimClock(): the time is the wall clock's at construction, any value; no
\* event is scheduled.  The other components stay as constructed.
ClockInit ==
    /\ current_time_ \in Times
    /\ scheduled_events_ = {}
    /\ mutex_ = FALSE
    /\ advance_depth = 0
    /\ clock_pc = "idle"
    /\ next_event_seq = 1
    /\ fired = <<>>
    /\ pending_at_advance = {}
    /\ advance_target = 0
    /\ clock_calls = 0
    /\ clock_step = NoClockStep
    /\ bids_ = EmptyMap
    /\ asks_ = EmptyMap
    /\ next_order_id_ = 1
    /\ matching_algo_ = "PRICE_TIME"
    /\ book_calls = 0
    /\ book_call = BookCall("init", NoOrder, <<>>)
    /\ subscribers_ = [kind \in Kinds |-> <<>>]
    /\ all_subscribers_ = <<>>
    /\ handle_to_type_ = <<>>
    /\ next_handle_ = 1
    /\ event_queue_ = <<>>
    /\ running_ = FALSE
    /\ bus_mutex_ = "free"
    /\ bus_pc = [main |-> "idle", worker |-> "none"]
    /\ bus_event = [th \in BusThreads |-> NoEvent]
    /\ todo = <<>>
    /\ local_queue = <<>>
    /\ main_call = "none"
    /\ delivered = <<>>
    /\ issued = {}
    /\ next_event_id = 1
    /\ bus_calls = 0
    /\ bus_step = NoBusStep
    /\ limits_ = RiskLimits(TRUE, TRUE, TRUE, TRUE)
    /\ strategy_limits_ = <<>>
    /\ positions_ = [key \in Pairs |-> 0]
    /\ exposures_ = [key \in Pairs |-> 0]
    /\ rate_limiting_ =
           [s \in Strategies |-> [order_times |-> <<>>, daily_orders |-> 0]]
    /\ strategy_pnl_ =
           [s \in Strategies |->
                [daily_pnl |-> 0, total_pnl |-> 0, cooldown_until |-> 0]]
    /\ wall_clock = 0
    /\ sim_clock = 0
    /\ fill_sum = [key \in Pairs |-> 0]
    /\ submitted = [s \in Strategies |-> <<>>]
    /\ cooldown_sim = [s \in Strategies |-> 0]
    /\ risk_calls = 0
    /\ risk_call = NoRiskCall
    /\ data_ = <<>>
    /\ store_call = NoStoreCall
    /\ bucket_order = <<>>
    /\ strategies_ = <<>>
    /\ is_active_ = [s \in Strategies |-> TRUE]
    /\ is_running_ = FALSE
    /\ is_paused_ = FALSE
    /\ should_stop_ = FALSE
    /\ results_ = DefaultResults
    /\ run_pc = "idle"
    /\ all_ticks = <<>>
    /\ received = <<>>
    /\ stop_called = FALSE
    /\ late_ticks = {}
    /\ runs = <<>>
    /\ control_calls = 0
    /\ engines = 1
    /\ engine_step = NoEngineStep
    /\ slippage_model = LinearSlippageModel(1, 100)
    /\ slippage_call = NoSlippageCall
    /\ columns = <<>>
    /\ appended = <<>>
    /\ column_call = NoColumnCall
    /\ short_period_ = 1
    /\ long_period_ = 2
    /\ price_histories_ = <<>>
    /\ strategy_positions = <<>>
    /\ trade_count_ = 0
    /\ next_id = 1
    /\ executed = <<>>
    /\ sma_ticks = 0
    /\ other_orders = 0
    /\ sma_call = NoSmaCall

ClockSpec == ClockInit /\ [][ClockNext]_vars

\* The event bus alone: an EventBus, its producer and its worker.
BusNext ==
    \/ Subscribe /\ UNCHANGED notBusVars
    \/ SubscribeAll /\ UNCHANGED notBusVars
    \/ Unsubscribe /\ UNCHANGED notBusVars
    \/ Publish /\ UNCHANGED notBusVars
    \/ PublishSync /\ UNCHANGED notBusVars
    \/ Start /\ UNCHANGED notBusVars
    \/ Stop /\ UNCHANGED notBusVars
    \/ StopNotify /\ UNCHANGED notBusVars
    \/ StopJoin /\ UNCHANGED notBusVars
    \/ ProcessPending /\ UNCHANGED notBusVars
    \/ PendingLoop /\ UNCHANGED notBusVars
    \/ WorkerCheck /\ UNCHANGED notBusVars
    \/ WorkerWait /\ UNCHANGED notBusVars
    \/ DispatchLock /\ UNCHANGED notBusVars
    \/ InvokeHandler /\ UNCHANGED notBusVars
    \/ DispatchReturn /\ UNCHANGED notBusVars

\* EventBus(): not running, no subscriber, an empty queue.  The other
\* components stay as constructed.
BusInit ==
    /\ subscribers_ = [kind \in Kinds |-> <<>>]
    /\ all_subscribers_ = <<>>
    /\ handle_to_type_ = <<>>
    /\ next_handle_ = 1
    /\ event_queue_ = <<>>
    /\ running_ = FALSE
    /\ bus_mutex_ = "free"
    /\ bus_pc = [main |-> "idle", worker |-> "none"]
    /\ bus_event = [th \in BusThreads |-> NoEvent]
    /\ todo = <<>>
    /\ local_queue = <<>>
    /\ main_call = "none"
    /\ delivered = <<>>
    /\ issued = {}
    /\ next_event_id = 1
    /\ bus_calls = 0
    /\ bus_step = NoBusStep
    /\ bids_ = EmptyMap
    /\ asks_ = EmptyMap
    /\ next_order_id_ = 1
    /\ matching_algo_ = "PRICE_TIME"
    /\ book_calls = 0
    /\ book_call = BookCall("init", NoOrder, <<>>)
    /\ current_time_ = 0
    /\ scheduled_events_ = {}
    /\ mutex_ = FALSE
    /\ advance_depth = 0
    /\ clock_pc = "idle"
    /\ next_event_seq = 1
    /\ fired = <<>>
    /\ pending_at_advance = {}
    /\ advance_target = 0
    /\ clock_calls = 0
    /\ clock_step = NoClockStep
    /\ limits_ = RiskLimits(TRUE, TRUE, TRUE, TRUE)
    /\ strategy_limits_ = <<>>
    /\ positions_ = [key \in Pairs |-> 0]
    /\ exposures_ = [key \in Pairs |-> 0]
    /\ rate_limiting_ =
           [s \in Strategies |-> [order_times |-> <<>>, daily_orders |-> 0]]
    /\ strategy_pnl_ =
           [s \in Strategies |->
                [daily_pnl |-> 0, total_pnl |-> 0, cooldown_until |-> 0]]
    /\ wall_clock = 0
    /\ sim_clock = 0
    /\ fill_sum = [key \in Pairs |-> 0]
    /\ submitted = [s \in Strategies |-> <<>>]
    /\ cooldown_sim = [s \in Strategies |-> 0]
    /\ risk_calls = 0
    /\ risk_call = NoRiskCall
    /\ data_ = <<>>
    /\ store_call = NoStoreCall
    /\ bucket_order = <<>>
    /\ strategies_ = <<>>
    /\ is_active_ = [s \in Strategies |-> TRUE]
    /\ is_running_ = FALSE
    /\ is_paused_ = FALSE
    /\ should_stop_ = FALSE
    /\ results_ = DefaultResults
    /\ run_pc = "idle"
    /\ all_ticks = <<>>
    /\ received = <<>>
    /\ stop_called = FALSE
    /\ late_ticks = {}
    /\ runs = <<>>
    /\ control_calls = 0
    /\ engines = 1
    /\ engine_step = NoEngineStep
    /\ slippage_model = LinearSlippageModel(1, 100)
    /\ slippage_call = NoSlippageCall
    /\ columns = <<>>
    /\ appended = <<>>
    /\ column_call = NoColumnCall
    /\ short_period_ = 1
    /\ long_period_ = 2
    /\ price_histories_ = <<>>
    /\ strategy_positions = <<>>
    /\ trade_count_ = 0
    /\ next_id = 1
    /\ executed = <<>>
    /\ sma_ticks = 0
    /\ other_orders = 0
    /\ sma_call = NoSmaCall

BusSpec == BusInit /\ [][BusNext]_vars

\* The risk manager alone: a RiskManager and the calls made on it.
RiskNext ==
    \/ CheckOrder /\ UNCHANGED notRiskVars
    \/ OnOrderSubmitted /\ UNCHANGED notRiskVars
    \/ OnFill /\ UNCHANGED notRiskVars
    \/ ResetDailyCounters /\ UNCHANGED notRiskVars
    \/ SetLimits /\ UNCHANGED notRiskVars
    \/ SetStrategyLimits /\ UNCHANGED notRiskVars
    \/ WallClockTicks /\ UNCHANGED notRiskVars
    \/ SimClockTicks /\ UNCHANGED notRiskVars

\* RiskManager(global_limits) for any limits that enable the checks; the
\* other components stay as constructed.
RiskInit ==
    /\ limits_ \in LimitsChoices
    /\ strategy_limits_ = <<>>
    /\ positions_ = [key \in Pairs |-> 0]
    /\ exposures_ = [key \in Pairs |-> 0]
    /\ rate_limiting_ =
           [s \in Strategies |-> [order_times |-> <<>>, daily_orders |-> 0]]
    /\ strategy_pnl_ =
           [s \in Strategies |->
                [daily_pnl |-> 0, total_pnl |-> 0, cooldown_until |-> 0]]
    /\ wall_clock = 0
    /\ sim_clock = 0
    /\ fill_sum = [key \in Pairs |-> 0]
    /\ submitted = [s \in Strategies |-> <<>>]
    /\ cooldown_sim = [s \in Strategies |-> 0]
    /\ risk_calls = 0
    /\ risk_call = NoRiskCall
    /\ bids_ = EmptyMap
    /\ asks_ = EmptyMap
    /\ next_order_id_ = 1
    /\ matching_algo_ = "PRICE_TIME"
    /\ book_calls = 0
    /\ book_call = BookCall("init", NoOrder, <<>>)
    /\ current_time_ = 0
    /\ scheduled_events_ = {}
    /\ mutex_ = FALSE
    /\ advance_depth = 0
    /\ clock_pc = "idle"
    /\ next_event_seq = 1
    /\ fired = <<>>
    /\ pending_at_advance = {}
    /\ advance_target = 0
    /\ clock_calls = 0
    /\ clock_step = NoClockStep
    /\ subscribers_ = [kind \in Kinds |-> <<>>]
    /\ all_subscribers_ = <<>>
    /\ handle_to_type_ = <<>>
    /\ next_handle_ = 1
    /\ event_queue_ = <<>>
    /\ running_ = FALSE
    /\ bus_mutex_ = "free"
    /\ bus_pc = [main |-> "idle", worker |-> "none"]
    /\ bus_event = [th \in BusThreads |-> NoEvent]
    /\ todo = <<>>
    /\ local_queue = <<>>
    /\ main_call = "none"
    /\ delivered = <<>>
    /\ issued = {}
    /\ next_event_id = 1
    /\ bus_calls = 0
    /\ bus_step = NoBusStep
    /\ data_ = <<>>
    /\ store_call = NoStoreCall
    /\ bucket_order = <<>>
    /\ strategies_ = <<>>
    /\ is_active_ = [s \in Strategies |-> TRUE]
    /\ is_running_ = FALSE
    /\ is_paused_ = FALSE
    /\ should_stop_ = FALSE
    /\ results_ = DefaultResults
    /\ run_pc = "idle"
    /\ all_ticks = <<>>
    /\ received = <<>>
    /\ stop_called = FALSE
    /\ late_ticks = {}
    /\ runs = <<>>
    /\ control_calls = 0
    /\ engines = 1
    /\ engine_step = NoEngineStep
    /\ slippage_model = LinearSlippageModel(1, 100)
    /\ slippage_call = NoSlippageCall
    /\ columns = <<>>
    /\ appended = <<>>
    /\ column_call = NoColumnCall
    /\ short_period_ = 1
    /\ long_period_ = 2
    /\ price_histories_ = <<>>
    /\ strategy_positions = <<>>
    /\ trade_count_ = 0
    /\ next_id = 1
    /\ executed = <<>>
    /\ sma_ticks = 0
    /\ other_orders = 0
    /\ sma_call = NoSmaCall

RiskSpec == RiskInit /\ [][RiskNext]_vars

\* The tick store alone: a TickDataStore and the calls made on it.
StoreNext ==
    \/ AddTick /\ UNCHANGED notStoreVars
    \/ AddTicks /\ UNCHANGED notStoreVars
    \/ GetTicksRange /\ UNCHANGED notStoreVars
    \/ SortByTimestamp /\ UNCHANGED notStoreVars

\* An empty TickDataStore; the other components stay as constructed.
StoreInit ==
    /\ data_ = <<>>
    /\ store_call = NoStoreCall
    /\ bids_ = EmptyMap
    /\ asks_ = EmptyMap
    /\ next_order_id_ = 1
    /\ matching_algo_ = "PRICE_TIME"
    /\ book_calls = 0
    /\ book_call = BookCall("init", NoOrder, <<>>)
    /\ current_time_ = 0
    /\ scheduled_events_ = {}
    /\ mutex_ = FALSE
    /\ advance_depth = 0
    /\ clock_pc = "idle"
    /\ next_event_seq = 1
    /\ fired = <<>>
    /\ pending_at_advance = {}
    /\ advance_target = 0
    /\ clock_calls = 0
    /\ clock_step = NoClockStep
    /\ subscribers_ = [kind \in Kinds |-> <<>>]
    /\ all_subscribers_ = <<>>
    /\ handle_to_type_ = <<>>
    /\ next_handle_ = 1
    /\ event_queue_ = <<>>
    /\ running_ = FALSE
    /\ bus_mutex_ = "free"
    /\ bus_pc = [main |-> "idle", worker |-> "none"]
    /\ bus_event = [th \in BusThreads |-> NoEvent]
    /\ todo = <<>>
    /\ local_queue = <<>>
    /\ main_call = "none"
    /\ delivered = <<>>
    /\ issued = {}
    /\ next_event_id = 1
    /\ bus_calls = 0
    /\ bus_step = NoBusStep
    /\ limits_ = RiskLimits(TRUE, TRUE, TRUE, TRUE)
    /\ strategy_limits_ = <<>>
    /\ positions_ = [key \in Pairs |-> 0]
    /\ exposures_ = [key \in Pairs |-> 0]
    /\ rate_limiting_ =
           [s \in Strategies |-> [order_times |-> <<>>, daily_orders |-> 0]]
    /\ strategy_pnl_ =
           [s \in Strategies |->
                [daily_pnl |-> 0, total_pnl |-> 0, cooldown_until |-> 0]]
    /\ wall_clock = 0
    /\ sim_clock = 0
    /\ fill_sum = [key \in Pairs |-> 0]
    /\ submitted = [s \in Strategies |-> <<>>]
    /\ cooldown_sim = [s \in Strategies |-> 0]
    /\ risk_calls = 0
    /\ risk_call = NoRiskCall
    /\ bucket_order = <<>>
    /\ strategies_ = <<>>
    /\ is_active_ = [s \in Strategies |-> TRUE]
    /\ is_running_ = FALSE
    /\ is_paused_ = FALSE
    /\ should_stop_ = FALSE
    /\ results_ = DefaultResults
    /\ run_pc = "idle"
    /\ all_ticks = <<>>
    /\ received = <<>>
    /\ stop_called = FALSE
    /\ late_ticks = {}
    /\ runs = <<>>
    /\ control_calls = 0
    /\ engines = 1
    /\ engine_step = NoEngineStep
    /\ slippage_model = LinearSlippageModel(1, 100)
    /\ slippage_call = NoSlippageCall
    /\ columns = <<>>
    /\ appended = <<>>
    /\ column_call = NoColumnCall
    /\ short_period_ = 1
    /\ long_period_ = 2
    /\ price_histories_ = <<>>
    /\ strategy_positions = <<>>
    /\ trade_count_ = 0
    /\ next_id = 1
    /\ executed = <<>>
    /\ sma_ticks = 0
    /\ other_orders = 0
    /\ sma_call = NoSmaCall

StoreSpec == StoreInit /\ [][StoreNext]_vars

\* The engine alone: a BacktestEngine, the thread in run() and the thread
\* that controls it.
EngineNext ==
    \/ AddTickData /\ UNCHANGED notEngineVars
    \/ AddStrategy /\ UNCHANGED notEngineVars
    \/ SetActive /\ UNCHANGED notEngineVars
    \/ Run /\ UNCHANGED notEngineVars
    \/ RunSetsRunning /\ UNCHANGED notEngineVars
    \/ RunClearsPaused /\ UNCHANGED notEngineVars
    \/ RunClearsStop /\ UNCHANGED notEngineVars
    \/ RunLoop /\ UNCHANGED notEngineVars
    \/ RunProcessesTick /\ UNCHANGED notEngineVars
    \/ RunReturns /\ UNCHANGED notEngineVars
    \/ RunRange /\ UNCHANGED notEngineVars
    \/ PauseEngine /\ UNCHANGED notEngineVars
    \/ ResumeEngine /\ UNCHANGED notEngineVars
    \/ StopEngine /\ UNCHANGED notEngineVars

\* BacktestEngine(): no tick, no strategy, not running.  The other
\* components stay as constructed.
EngineInit ==
    /\ bucket_order = <<>>
    /\ strategies_ = <<>>
    /\ is_active_ = [s \in Strategies |-> TRUE]
    /\ is_running_ = FALSE
    /\ is_paused_ = FALSE
    /\ should_stop_ = FALSE
    /\ results_ = DefaultResults
    /\ run_pc = "idle"
    /\ all_ticks = <<>>
    /\ received = <<>>
    /\ stop_called = FALSE
    /\ late_ticks = {}
    /\ runs = <<>>
    /\ control_calls = 0
    /\ engines = 1
    /\ engine_step = NoEngineStep
    /\ bids_ = EmptyMap
    /\ asks_ = EmptyMap
    /\ next_order_id_ = 1
    /\ matching_algo_ = "PRICE_TIME"
    /\ book_calls = 0
    /\ book_call = BookCall("init", NoOrder, <<>>)
    /\ current_time_ = 0
    /\ scheduled_events_ = {}
    /\ mutex_ = FALSE
    /\ advance_depth = 0
    /\ clock_pc = "idle"
    /\ next_event_seq = 1
    /\ fired = <<>>
    /\ pending_at_advance = {}
    /\ advance_target = 0
    /\ clock_calls = 0
    /\ clock_step = NoClockStep
    /\ subscribers_ = [kind \in Kinds |-> <<>>]
    /\ all_subscribers_ = <<>>
    /\ handle_to_type_ = <<>>
    /\ next_handle_ = 1
    /\ event_queue_ = <<>>
    /\ running_ = FALSE
    /\ bus_mutex_ = "free"
    /\ bus_pc = [main |-> "idle", worker |-> "none"]
    /\ bus_event = [th \in BusThreads |-> NoEvent]
    /\ todo = <<>>
    /\ local_queue = <<>>
    /\ main_call = "none"
    /\ delivered = <<>>
    /\ issued = {}
    /\ next_event_id = 1
    /\ bus_calls = 0
    /\ bus_step = NoBusStep
    /\ limits_ = RiskLimits(TRUE, TRUE, TRUE, TRUE)
    /\ strategy_limits_ = <<>>
    /\ positions_ = [key \in Pairs |-> 0]
    /\ exposures_ = [key \in Pairs |-> 0]
    /\ rate_limiting_ =
           [s \in Strategies |-> [order_times |-> <<>>, daily_orders |-> 0]]
    /\ strategy_pnl_ =
           [s \in Strategies |->
                [daily_pnl |-> 0, total_pnl |-> 0, cooldown_until |-> 0]]
    /\ wall_clock = 0
    /\ sim_clock = 0
    /\ fill_sum = [key \in Pairs |-> 0]
    /\ submitted = [s \in Strategies |-> <<>>]
    /\ cooldown_sim = [s \in Strategies |-> 0]
    /\ risk_calls = 0
    /\ risk_call = NoRiskCall
    /\ data_ = <<>>
    /\ store_call = NoStoreCall
    /\ slippage_model = LinearSlippageModel(1, 100)
    /\ slippage_call = NoSlippageCall
    /\ columns = <<>>
    /\ appended = <<>>
    /\ column_call = NoColumnCall
    /\ short_period_ = 1
    /\ long_period_ = 2
    /\ price_histories_ = <<>>
    /\ strategy_positions = <<>>
    /\ trade_count_ = 0
    /\ next_id = 1
    /\ executed = <<>>
    /\ sma_ticks = 0
    /\ other_orders = 0
    /\ sma_call = NoSmaCall

EngineSpec == EngineInit /\ [][EngineNext]_vars

\* A slippage model alone: the calls of calculate_slippage on it.
SlipNext ==
    \/ LinearCalculateSlippage /\ UNCHANGED notSlipVars
    \/ SqrtCalculateSlippage /\ UNCHANGED notSlipVars

\* A model of either class with any rates; the other components stay as
\* constructed (there, LinearSlippageModel(0.0001, 0.01), the default).
SlipInit ==
    /\ slippage_model \in SlippageModels
    /\ slippage_call = NoSlippageCall
    /\ bids_ = EmptyMap
    /\ asks_ = EmptyMap
    /\ next_order_id_ = 1
    /\ matching_algo_ = "PRICE_TIME"
    /\ book_calls = 0
    /\ book_call = BookCall("init", NoOrder, <<>>)
    /\ current_time_ = 0
    /\ scheduled_events_ = {}
    /\ mutex_ = FALSE
    /\ advance_depth = 0
    /\ clock_pc = "idle"
    /\ next_event_seq = 1
    /\ fired = <<>>
    /\ pending_at_advance = {}
    /\ advance_target = 0
    /\ clock_calls = 0
    /\ clock_step = NoClockStep
    /\ subscribers_ = [kind \in Kinds |-> <<>>]
    /\ all_subscribers_ = <<>>
    /\ handle_to_type_ = <<>>
    /\ next_handle_ = 1
    /\ event_queue_ = <<>>
    /\ running_ = FALSE
    /\ bus_mutex_ = "free"
    /\ bus_pc = [main |-> "idle", worker |-> "none"]
    /\ bus_event = [th \in BusThreads |-> NoEvent]
    /\ todo = <<>>
    /\ local_queue = <<>>
    /\ main_call = "none"
    /\ delivered = <<>>
    /\ issued = {}
    /\ next_event_id = 1
    /\ bus_calls = 0
    /\ bus_step = NoBusStep
    /\ limits_ = RiskLimits(TRUE, TRUE, TRUE, TRUE)
    /\ strategy_limits_ = <<>>
    /\ positions_ = [key \in Pairs |-> 0]
    /\ exposures_ = [key \in Pairs |-> 0]
    /\ rate_limiting_ =
           [s \in Strategies |-> [order_times |-> <<>>, daily_orders |-> 0]]
    /\ strategy_pnl_ =
           [s \in Strategies |->
                [daily_pnl |-> 0, total_pnl |-> 0, cooldown_until |-> 0]]
    /\ wall_clock = 0
    /\ sim_clock = 0
    /\ fill_sum = [key \in Pairs |-> 0]
    /\ submitted = [s \in Strategies |-> <<>>]
    /\ cooldown_sim = [s \in Strategies |-> 0]
    /\ risk_calls = 0
    /\ risk_call = NoRiskCall
    /\ data_ = <<>>
    /\ store_call = NoStoreCall
    /\ bucket_order = <<>>
    /\ strategies_ = <<>>
    /\ is_active_ = [s \in Strategies |-> TRUE]
    /\ is_running_ = FALSE
    /\ is_paused_ = FALSE
    /\ should_stop_ = FALSE
    /\ results_ = DefaultResults
    /\ run_pc = "idle"
    /\ all_ticks = <<>>
    /\ received = <<>>
    /\ stop_called = FALSE
    /\ late_ticks = {}
    /\ runs = <<>>
    /\ control_calls = 0
    /\ engines = 1
    /\ engine_step = NoEngineStep
    /\ columns = <<>>
    /\ appended = <<>>
    /\ column_call = NoColumnCall
    /\ short_period_ = 1
    /\ long_period_ = 2
    /\ price_histories_ = <<>>
    /\ strategy_positions = <<>>
    /\ trade_count_ = 0
    /\ next_id = 1
    /\ executed = <<>>
    /\ sma_ticks = 0
    /\ other_orders = 0
    /\ sma_call = NoSmaCall

SlipSpec == SlipInit /\ [][SlipNext]_vars

\* The columns of the tick store alone: the calls that append and sort.
ColumnNext ==
    \/ ColumnAddTick /\ UNCHANGED notColumnVars
    \/ ColumnAddTicks /\ UNCHANGED notColumnVars
    \/ ColumnSortByTimestamp /\ UNCHANGED notColumnVars

\* TickDataStore(): no instrument has an entry; the other components stay
\* as constructed.
ColumnInit ==
    /\ columns = <<>>
    /\ appended = <<>>
    /\ column_call = NoColumnCall
    /\ bids_ = EmptyMap
    /\ asks_ = EmptyMap
    /\ next_order_id_ = 1
    /\ matching_algo_ = "PRICE_TIME"
    /\ book_calls = 0
    /\ book_call = BookCall("init", NoOrder, <<>>)
    /\ current_time_ = 0
    /\ scheduled_events_ = {}
    /\ mutex_ = FALSE
    /\ advance_depth = 0
    /\ clock_pc = "idle"
    /\ next_event_seq = 1
    /\ fired = <<>>
    /\ pending_at_advance = {}
    /\ advance_target = 0
    /\ clock_calls = 0
    /\ clock_step = NoClockStep
    /\ subscribers_ = [kind \in Kinds |-> <<>>]
    /\ all_subscribers_ = <<>>
    /\ handle_to_type_ = <<>>
    /\ next_handle_ = 1
    /\ event_queue_ = <<>>
    /\ running_ = FALSE
    /\ bus_mutex_ = "free"
    /\ bus_pc = [main |-> "idle", worker |-> "none"]
    /\ bus_event = [th \in BusThreads |-> NoEvent]
    /\ todo = <<>>
    /\ local_queue = <<>>
    /\ main_call = "none"
    /\ delivered = <<>>
    /\ issued = {}
    /\ next_event_id = 1
    /\ bus_calls = 0
    /\ bus_step = NoBusStep
    /\ limits_ = RiskLimits(TRUE, TRUE, TRUE, TRUE)
    /\ strategy_limits_ = <<>>
    /\ positions_ = [key \in Pairs |-> 0]
    /\ exposures_ = [key \in Pairs |-> 0]
    /\ rate_limiting_ =
           [s \in Strategies |-> [order_times |-> <<>>, daily_orders |-> 0]]
    /\ strategy_pnl_ =
           [s \in Strategies |->
                [daily_pnl |-> 0, total_pnl |-> 0, cooldown_until |-> 0]]
    /\ wall_clock = 0
    /\ sim_clock = 0
    /\ fill_sum = [key \in Pairs |-> 0]
    /\ submitted = [s \in Strategies |-> <<>>]
    /\ cooldown_sim = [s \in Strategies |-> 0]
    /\ risk_calls = 0
    /\ risk_call = NoRiskCall
    /\ data_ = <<>>
    /\ store_call = NoStoreCall
    /\ bucket_order = <<>>
    /\ strategies_ = <<>>
    /\ is_active_ = [s \in Strategies |-> TRUE]
    /\ is_running_ = FALSE
    /\ is_paused_ = FALSE
    /\ should_stop_ = FALSE
    /\ results_ = DefaultResults
    /\ run_pc = "idle"
    /\ all_ticks = <<>>
    /\ received = <<>>
    /\ stop_called = FALSE
    /\ late_ticks = {}
    /\ runs = <<>>
    /\ control_calls = 0
    /\ engines = 1
    /\ engine_step = NoEngineStep
    /\ slippage_model = LinearSlippageModel(1, 100)
    /\ slippage_call = NoSlippageCall
    /\ short_period_ = 1
    /\ long_period_ = 2
    /\ price_histories_ = <<>>
    /\ strategy_positions = <<>>
    /\ trade_count_ = 0
    /\ next_id = 1
    /\ executed = <<>>
    /\ sma_ticks = 0
    /\ other_orders = 0
    /\ sma_call = NoSmaCall

ColumnSpec == ColumnInit /\ [][ColumnNext]_vars

\* An SMAStrategy alone: the market data it handles and the orders it
\* executes.
SmaNext ==
    \/ OnMarketData /\ UNCHANGED notSmaVars
    \/ OtherExecuteOrder /\ UNCHANGED notSmaVars

\* SMAStrategy(id, short_period, long_period, ...): no history, no
\* position, no trade; the other components stay as constructed.
SmaInit ==
    /\ \E periods \in SmaPeriods :
          /\ short_period_ = periods[1]
          /\ long_period_ = periods[2]
    /\ price_histories_ = <<>>
    /\ strategy_positions = <<>>
    /\ trade_count_ = 0
    /\ next_id = 1
    /\ executed = <<>>
    /\ sma_ticks = 0
    /\ other_orders = 0
    /\ sma_call = NoSmaCall
    /\ bids_ = EmptyMap
    /\ asks_ = EmptyMap
    /\ next_order_id_ = 1
    /\ matching_algo_ = "PRICE_TIME"
    /\ book_calls = 0
    /\ book_call = BookCall("init", NoOrder, <<>>)
    /\ current_time_ = 0
    /\ scheduled_events_ = {}
    /\ mutex_ = FALSE
    /\ advance_depth = 0
    /\ clock_pc = "idle"
    /\ next_event_seq = 1
    /\ fired = <<>>
    /\ pending_at_advance = {}
    /\ advance_target = 0
    /\ clock_calls = 0
    /\ clock_step = NoClockStep
    /\ subscribers_ = [kind \in Kinds |-> <<>>]
    /\ all_subscribers_ = <<>>
    /\ handle_to_type_ = <<>>
    /\ next_handle_ = 1
    /\ event_queue_ = <<>>
    /\ running_ = FALSE
    /\ bus_mutex_ = "free"
    /\ bus_pc = [main |-> "idle", worker |-> "none"]
    /\ bus_event = [th \in BusThreads |-> NoEvent]
    /\ todo = <<>>
    /\ local_queue = <<>>
    /\ main_call = "none"
    /\ delivered = <<>>
    /\ issued = {}
    /\ next_event_id = 1
    /\ bus_calls = 0
    /\ bus_step = NoBusStep
    /\ limits_ = RiskLimits(TRUE, TRUE, TRUE, TRUE)
    /\ strategy_limits_ = <<>>
    /\ positions_ = [key \in Pairs |-> 0]
    /\ exposures_ = [key \in Pairs |-> 0]
    /\ rate_limiting_ =
           [s \in Strategies |-> [order_times |-> <<>>, daily_orders |-> 0]]
    /\ strategy_pnl_ =
           [s \in Strategies |->
                [daily_pnl |-> 0, total_pnl |-> 0, cooldown_until |-> 0]]
    /\ wall_clock = 0
    /\ sim_clock = 0
    /\ fill_sum = [key \in Pairs |-> 0]
    /\ submitted = [s \in Strategies |-> <<>>]
    /\ cooldown_sim = [s \in Strategies |-> 0]
    /\ risk_calls = 0
    /\ risk_call = NoRiskCall
    /\ data_ = <<>>
    /\ store_call = NoStoreCall
    /\ bucket_order = <<>>
    /\ strategies_ = <<>>
    /\ is_active_ = [s \in Strategies |-> TRUE]
    /\ is_running_ = FALSE
    /\ is_paused_ = FALSE
    /\ should_stop_ = FALSE
    /\ results_ = DefaultResults
    /\ run_pc = "idle"
    /\ all_ticks = <<>>
    /\ received = <<>>
    /\ stop_called = FALSE
    /\ late_ticks = {}
    /\ runs = <<>>
    /\ control_calls = 0
    /\ engines = 1
    /\ engine_step = NoEngineStep
    /\ slippage_model = LinearSlippageModel(1, 100)
    /\ slippage_call = NoSlippageCall
    /\ columns = <<>>
    /\ appended = <<>>
    /\ column_call = NoColumnCall

SmaSpec == SmaInit /\ [][SmaNext]_vars

\* The replay on one engine after the other: each BacktestEngine is set up
\* and runs, with no thread that controls it.
ReplayNext ==
    \/ AddTickData /\ UNCHANGED notEngineVars
    \/ AddStrategy /\ UNCHANGED notEngineVars
    \/ SetActive /\ UNCHANGED notEngineVars
    \/ Run /\ UNCHANGED notEngineVars
    \/ RunSetsRunning /\ UNCHANGED notEngineVars
    \/ RunClearsPaused /\ UNCHANGED notEngineVars
    \/ RunClearsStop /\ UNCHANGED notEngineVars
    \/ RunLoop /\ UNCHANGED notEngineVars
    \/ RunProcessesTick /\ UNCHANGED notEngineVars
    \/ RunReturns /\ UNCHANGED notEngineVars
    \/ NewEngine /\ UNCHANGED notEngineVars

ReplaySpec == EngineInit /\ [][ReplayNext]_vars

\* OrderBook(instrument, algo) for any of the three matching algorithms.
BookAlgoInit ==
    /\ bids_ = EmptyMap
    /\ asks_ = EmptyMap
    /\ next_order_id_ = 1
    /\ matching_algo_ \in MatchingAlgorithm
    /\ book_calls = 0
    /\ book_call = BookCall("init", NoOrder, <<>>)
    /\ current_time_ = 0
    /\ scheduled_events_ = {}
    /\ mutex_ = FALSE
    /\ advance_depth = 0
    /\ clock_pc = "idle"
    /\ next_event_seq = 1
    /\ fired = <<>>
    /\ pending_at_advance = {}
    /\ advance_target = 0
    /\ clock_calls = 0
    /\ clock_step = NoClockStep
    /\ subscribers_ = [kind \in Kinds |-> <<>>]
    /\ all_subscribers_ = <<>>
    /\ handle_to_type_ = <<>>
    /\ next_handle_ = 1
    /\ event_queue_ = <<>>
    /\ running_ = FALSE
    /\ bus_mutex_ = "free"
    /\ bus_pc = [main |-> "idle", worker |-> "none"]
    /\ bus_event = [th \in BusThreads |-> NoEvent]
    /\ todo = <<>>
    /\ local_queue = <<>>
    /\ main_call = "none"
    /\ delivered = <<>>
    /\ issued = {}
    /\ next_event_id = 1
    /\ bus_calls = 0
    /\ bus_step = NoBusStep
    /\ limits_ = RiskLimits(TRUE, TRUE, TRUE, TRUE)
    /\ strategy_limits_ = <<>>
    /\ positions_ = [key \in Pairs |-> 0]
    /\ exposures_ = [key \in Pairs |-> 0]
    /\ rate_limiting_ =
           [s \in Strategies |-> [order_times |-> <<>>, daily_orders |-> 0]]
    /\ strategy_pnl_ =
           [s \in Strategies |->
                [daily_pnl |-> 0, total_pnl |-> 0, cooldown_until |-> 0]]
    /\ wall_clock = 0
    /\ sim_clock = 0
    /\ fill_sum = [key \in Pairs |-> 0]
    /\ submitted = [s \in Strategies |-> <<>>]
    /\ cooldown_sim = [s \in Strategies |-> 0]
    /\ risk_calls = 0
    /\ risk_call = NoRiskCall
    /\ data_ = <<>>
    /\ store_call = NoStoreCall
    /\ bucket_order = <<>>
    /\ strategies_ = <<>>
    /\ is_active_ = [s \in Strategies |-> TRUE]
    /\ is_running_ = FALSE
    /\ is_paused_ = FALSE
    /\ should_stop_ = FALSE
    /\ results_ = DefaultResults
    /\ run_pc = "idle"
    /\ all_ticks = <<>>
    /\ received = <<>>
    /\ stop_called = FALSE
    /\ late_ticks = {}
    /\ runs = <<>>
    /\ control_calls = 0
    /\ engines = 1
    /\ engine_step = NoEngineStep
    /\ slippage_model = LinearSlippageModel(1, 100)
    /\ slippage_call = NoSlippageCall
    /\ columns = <<>>
    /\ appended = <<>>
    /\ column_call = NoColumnCall
    /\ short_period_ = 1
    /\ long_period_ = 2
    /\ price_histories_ = <<>>
    /\ strategy_positions = <<>>
    /\ trade_count_ = 0
    /\ next_id = 1
    /\ executed = <<>>
    /\ sma_ticks = 0
    /\ other_orders = 0
    /\ sma_call = NoSmaCall

BookAlgoSpec == BookAlgoInit /\ [][BookNext]_vars

\* The clock with callbacks that may throw.
ClockThrowNext ==
    \/ AdvanceTo /\ UNCHANGED notClockVars
    \/ AdvanceBy /\ UNCHANGED notClockVars
    \/ Schedule /\ UNCHANGED notClockVars
    \/ ScheduleDelay /\ UNCHANGED notClockVars
    \/ Reset /\ UNCHANGED notClockVars
    \/ PopEvent /\ UNCHANGED notClockVars
    \/ ReturnFromAdvance /\ UNCHANGED notClockVars
    \/ CallbackReturns /\ UNCHANGED notClockVars
    \/ CallbackThrows /\ UNCHANGED notClockVars
    \/ CallbackAdvanceTo /\ UNCHANGED notClockVars
    \/ CallbackAdvanceBy /\ UNCHANGED notClockVars
    \/ CallbackSchedule /\ UNCHANGED notClockVars
    \/ CallbackScheduleDelay /\ UNCHANGED notClockVars
    \/ CallbackReset /\ UNCHANGED notClockVars

ClockThrowSpec == ClockInit /\ [][ClockThrowNext]_vars

\* The bus with handlers that call the bus.
BusNestedNext ==
    \/ Subscribe /\ UNCHANGED notBusVars
    \/ SubscribeAll /\ UNCHANGED notBusVars
    \/ Unsubscribe /\ UNCHANGED notBusVars
    \/ Publish /\ UNCHANGED notBusVars
    \/ PublishSync /\ UNCHANGED notBusVars
    \/ Start /\ UNCHANGED notBusVars
    \/ Stop /\ UNCHANGED notBusVars
    \/ StopNotify /\ UNCHANGED notBusVars
    \/ StopJoin /\ UNCHANGED notBusVars
    \/ ProcessPending /\ UNCHANGED notBusVars
    \/ PendingLoop /\ UNCHANGED notBusVars
    \/ WorkerCheck /\ UNCHANGED notBusVars
    \/ WorkerWait /\ UNCHANGED notBusVars
    \/ DispatchLock /\ UNCHANGED notBusVars
    \/ InvokeHandler /\ UNCHANGED notBusVars
    \/ HandlerCallsBus /\ UNCHANGED notBusVars
    \/ DispatchReturn /\ UNCHANGED notBusVars

BusNestedSpec == BusInit /\ [][BusNestedNext]_vars

\* ================================================================= claims
SetMax(S) == CHOOSE x \in S : \A y \in S : y <= x
SetMin(S) == CHOOSE x \in S : \A y \in S : x <= y

\* The last order was matched by op; its side's book and the opposite one.
OppositeSide(b, a, order) == IF order.side = "BUY" THEN a ELSE b
OwnSide(b, a, order)      == IF order.side = "BUY" THEN b ELSE a

VolumeAt(m, p) == IF p \in DOMAIN m THEN m[p].total_volume ELSE 0
OrdersAt(m, p) == IF p \in DOMAIN m THEN m[p].orders ELSE <<>>

\* C1: best_bid() is the highest resident bid price and best_ask() the
\* lowest resident ask price; each is none exactly when its side is empty.
C1_BestPrices ==
    /\ best_bid = (IF DOMAIN bids_ = {} THEN None ELSE SetMax(DOMAIN bids_))
    /\ best_ask = (IF DOMAIN asks_ = {} THEN None ELSE SetMin(DOMAIN asks_))

\* C2: a market order takes liquidity best price first: a buy fills at
\* strictly increasing ask prices from the lowest resident ask, a sell at
\* strictly decreasing bid prices from the highest resident bid; each fill
\* has the price of its level and the quantity min(remaining, level
\* volume), and a fully consumed level is removed.
C2_MarketBestFirst ==
    [][
        book_call'.op = "execute_market_order" =>
            LET o   == book_call'.order
                fs  == book_call'.fills
                opp == OppositeSide(bids_, asks_, o)
                now == OppositeSide(bids_', asks_', o)
            IN /\ fs # <<>> =>
                    fs[1].price = (IF o.side = "BUY" THEN SetMin(DOMAIN opp)
                                   ELSE SetMax(DOMAIN opp))
               /\ \A i \in 1..(Len(fs) - 1) :
                    IF o.side = "BUY" THEN fs[i].price < fs[i + 1].price
                    ELSE fs[i].price > fs[i + 1].price
               /\ \A i \in 1..Len(fs) :
                    /\ fs[i].price \in DOMAIN opp
                    /\ fs[i].quantity =
                           Min2(o.quantity - SumQty(SubSeq(fs, 1, i - 1)),
                                opp[fs[i].price].total_volume)
                    /\ fs[i].quantity = opp[fs[i].price].total_volume =>
                           fs[i].price \notin DOMAIN now
    ]_vars

\* C3: the fills of a market order sum to min(order.quantity, the volume
\* resident on the opposite side when it is matched).
C3_MarketFillSum ==
    [][book_call'.op = "execute_market_order" =>
         SumQty(book_call'.fills) =
             Min2(book_call'.order.quantity,
                  TotalVolume(OppositeSide(bids_, asks_, book_call'.order)))]_vars

\* A sell market order swept two bid levels.
C3_Witness ==
    /\ book_call.op = "execute_market_order"
    /\ book_call.order.side = "SELL"
    /\ Len(book_call.fills) = 2

\* C4: when a limit order leaves a residual resting on the book, no
\* opposite level that satisfies its limit is still resident: no ask at or
\* below a rested buy's price, no bid at or above a rested sell's price.
C4_RestedNotCrossed ==
    (/\ book_call.op = "execute_limit_order"
     /\ SumQty(book_call.fills) < book_call.order.quantity) =>
        IF book_call.order.side = "BUY"
        THEN \A p \in DOMAIN asks_ : p > book_call.order.price
        ELSE \A p \in DOMAIN bids_ : p < book_call.order.price

\* C5: for a limit order, the quantity rested is order.quantity minus the
\* sum of the fills; it is added, as the entry (order id, rested quantity),
\* at order.price on the order's own side; nothing is rested when that
\* difference is zero; nothing is added on the opposite side.
C5_LimitResidual ==
    [][
        book_call'.op = "execute_limit_order" =>
            LET o    == book_call'.order
                rest == o.quantity - SumQty(book_call'.fills)
                own  == OwnSide(bids_, asks_, o)
                own2 == OwnSide(bids_', asks_', o)
                opp  == OppositeSide(bids_, asks_, o)
                opp2 == OppositeSide(bids_', asks_', o)
            IN /\ rest >= 0
               /\ rest = 0 => own2 = own
               /\ rest > 0 =>
                    /\ DOMAIN own2 = DOMAIN own \cup {o.price}
                    /\ \A p \in DOMAIN own : p # o.price => own2[p] = own[p]
                    /\ own2[o.price].total_volume = VolumeAt(own, o.price) + rest
                    /\ own2[o.price].orders =
                           Append(OrdersAt(own, o.price), <<o.id, rest>>)
               /\ DOMAIN opp2 \subseteq DOMAIN opp
               /\ \A p \in DOMAIN opp2 :
                    /\ opp2[p].orders = opp[p].orders
                    /\ opp2[p].total_volume <= opp[p].total_volume
    ]_vars

\* A limit order was filled in part and the rest of it rests on its side.
C5_Witness ==
    /\ book_call.op = "execute_limit_order"
    /\ SumQty(book_call.fills) > 0
    /\ SumQty(book_call.fills) < book_call.order.quantity
    /\ book_call.order.price \in DOMAIN OwnSide(bids_, asks_, book_call.order)

\* C6: every resident level has total_volume > 0, equal to the sum of the
\* quantities of the entries in its FIFO queue.
C6_LevelVolume ==
    \A m \in {bids_, asks_} : \A p \in DOMAIN m :
        /\ m[p].total_volume > 0
        /\ m[p].total_volume = SumEntries(m[p].orders)

\* The time an advance_to or advance_by call, made by the step, asks for.
TargetTime(step, now) ==
    IF step.op = "advance_by" THEN now + step.arg ELSE step.arg

\* C7: advance_to(t) with t < now(), and advance_by(d) with d < 0, fail and
\* change nothing: the time, the pending events and the callbacks invoked
\* are as before.
C7_RewindRejected ==
    [][
        (/\ clock_step'.op \in {"advance_to", "advance_by"}
         /\ TargetTime(clock_step', current_time_) < current_time_) =>
            /\ clock_step'.result = "ClockRewind"
            /\ UNCHANGED <<current_time_, scheduled_events_, fired>>
    ]_vars

\* advance_by with a negative duration failed while an event was due.
C7_Witness ==
    /\ clock_step.op = "advance_by"
    /\ clock_step.arg < 0
    /\ clock_step.result = "ClockRewind"
    /\ \E e \in scheduled_events_ : e.execution_time <= current_time_

\* C8: over any sequence of SimClock operations, reset included, now()
\* never decreases.
C8_NeverBackward == [][current_time_' >= current_time_]_vars

\* C8 as amended: now() never decreases over advance_to, advance_by,
\* schedule, schedule_delay and the callbacks, from outside or from inside
\* a callback; reset(t) alone sets the time to t, earlier or not.
C8_BackwardOnlyByReset ==
    [][clock_step'.op # "reset" => current_time_' >= current_time_]_vars

\* A callback advanced the clock past the time it was invoked at.
C8_Witness ==
    /\ clock_step.op \in {"advance_to", "advance_by"}
    /\ clock_step.nested
    /\ clock_step.result = "ok"
    /\ fired # <<>>
    /\ fired[Len(fired)].now < current_time_

\* C9: among the events pending when advance_to is called, callbacks fire
\* in increasing due-time order, and events with the same due time fire in
\* the order they were scheduled.
C9_FireOrder ==
    \A i, j \in 1..Len(fired) :
        (/\ i < j
         /\ fired[i].call = fired[j].call
         /\ fired[i].pending
         /\ fired[j].pending) =>
            \/ fired[i].execution_time < fired[j].execution_time
            \/ /\ fired[i].execution_time = fired[j].execution_time
               /\ fired[i].seq < fired[j].seq

\* C10: a callback is invoked only inside advance_to/advance_by, when its
\* due time is <= now(), and invoking it does not move the clock; schedule
\* and schedule_delay invoke nothing and accept any due time, also one
\* before now(): the event is pending afterwards.
C10_FiresOnlyWhenDue ==
    [][
        /\ fired' # fired =>
            /\ clock_step'.op = "callback"
            /\ advance_depth >= 1
            /\ Len(fired') = Len(fired) + 1
            /\ SubSeq(fired', 1, Len(fired)) = fired
            /\ fired'[Len(fired')].execution_time <= current_time_
            /\ UNCHANGED current_time_
        /\ clock_step'.op \in {"schedule", "schedule_delay"} =>
            /\ UNCHANGED <<fired, current_time_>>
            /\ \E e \in scheduled_events_' \ scheduled_events_ :
                /\ scheduled_events_' = scheduled_events_ \cup {e}
                /\ e.execution_time =
                       (IF clock_step'.op = "schedule" THEN clock_step'.arg
                        ELSE current_time_ + clock_step'.arg)
    ]_vars

\* A callback scheduled for a time already past has been invoked, at a
\* time after its due time.
C10_Witness ==
    \E i \in 1..Len(fired) :
        fired[i].late /\ fired[i].execution_time < fired[i].now

C12_FifoPerSubscriber ==
    \A i, j \in 1..Len(delivered) :
        (/\ i < j
         /\ delivered[i].handle = delivered[j].handle
         /\ delivered[i].event.via = "publish"
         /\ delivered[j].event.via = "publish") =>
            delivered[i].event.id < delivered[j].event.id

\* C13: when a handler raises during a dispatch, the handlers still to be
\* called for that event are called, the failure does not reach the
\* publisher (the dispatch goes on, on the same thread, under the same
\* lock), and no subscription or queued event is lost, so later events
\* reach every subscriber.
C13_HandlerFailureIsolated ==
    [][(bus_step'.op = "handler" /\ bus_step'.result # "returns") =>
        /\ todo' = Tail(todo)
        /\ UNCHANGED <<bus_pc, bus_mutex_, subscribers_, all_subscribers_,
                       event_queue_, local_queue>>
    ]_vars

\* C14: subscribe and subscribe_all return a handle never issued before;
\* unsubscribe(h) takes h, and nothing else, out of every list, keeping
\* the order of the others, and with an unknown or already unsubscribed
\* handle it changes nothing; a handler is only ever invoked while its
\* handle is subscribed, so never after unsubscribe(h) has returned.
C14_HandlesAndUnsubscribe ==
    [][
        /\ bus_step'.op \in {"subscribe", "subscribe_all"} =>
            /\ bus_step'.result \notin issued
            /\ bus_step'.result \in DOMAIN handle_to_type_'
        /\ bus_step'.op = "unsubscribe" =>
            LET h == bus_step'.arg IN
            /\ h \notin DOMAIN handle_to_type_'
            /\ \A k \in Kinds :
                   subscribers_'[k] =
                       SelectSeq(subscribers_[k], LAMBDA x : x # h)
            /\ all_subscribers_' =
                   SelectSeq(all_subscribers_, LAMBDA x : x # h)
            /\ h \notin DOMAIN handle_to_type_ =>
                   UNCHANGED <<subscribers_, all_subscribers_,
                               handle_to_type_>>
            /\ UNCHANGED <<event_queue_, delivered, next_handle_>>
        /\ bus_step'.op = "handler" =>
            /\ bus_step'.arg \in DOMAIN handle_to_type_
            /\ delivered'[Len(delivered')].handle = bus_step'.arg
    ]_vars

\* A handle was unsubscribed before it received anything while another
\* subscription stayed, and the handler of the one that stayed has been
\* invoked since.
C14_Witness ==
    /\ bus_step.op = "handler"
    /\ \E h \in issued \ DOMAIN handle_to_type_ :
        /\ h # bus_step.arg
        /\ \A i \in 1..Len(delivered) : delivered[i].handle # h

\* ------------------------------------------------- RiskManager claims
\* C15: check_order is side-effect-free: a call changes none of the risk
\* manager's state, that is, the rolling order-time window, the daily
\* counts, the positions, the exposures, the P&L records with their
\* cooldown, and the limits.
C15_CheckOrderNoSideEffect ==
    [][risk_call'.op = "check_order"
       => UNCHANGED <<rate_limiting_, positions_, exposures_, strategy_pnl_,
                      limits_, strategy_limits_>>]_vars

\* The violations of check_order's checks, in the claimed order: order
\* size, rate per minute, rate per day, position, exposure, daily loss,
\* total loss, cooldown.
ViolationsInOrder ==
    << RiskViolation("REJECTED_ORDER_SIZE",
                     "Order size exceeds maximum allowed"),
       RiskViolation("REJECTED_RATE_LIMIT", "Order rate limit exceeded"),
       RiskViolation("REJECTED_RATE_LIMIT", "Daily order limit exceeded"),
       RiskViolation("REJECTED_POSITION_LIMIT",
                     "Position size limit exceeded"),
       RiskViolation("REJECTED_EXPOSURE_LIMIT",
                     "Notional exposure limit exceeded"),
       RiskViolation("REJECTED_LOSS_LIMIT", "Daily loss limit exceeded"),
       RiskViolation("REJECTED_LOSS_LIMIT", "Total loss limit exceeded"),
       RiskViolation("REJECTED_COOLDOWN", "Strategy in cooldown period") >>

\* Whether the k-th of these checks is enabled and fails for the order when
\* the wall clock reads now.
CheckFails(k, order, now) ==
    LET limits == get_limits(order.strategy)
        pnl    == strategy_pnl_[order.strategy]
    IN  CASE k = 1 -> /\ limits.enable_position_limits
                      /\ order.quantity > limits.max_order_size
          [] k = 2 -> /\ limits.enable_rate_limiting
                      /\ Len(SelectSeq(
                             rate_limiting_[order.strategy].order_times,
                             LAMBDA t : t >= now - Minute))
                            >= limits.max_orders_per_minute
          [] k = 3 -> /\ limits.enable_rate_limiting
                      /\ rate_limiting_[order.strategy].daily_orders
                            >= limits.max_orders_per_day
          [] k = 4 -> /\ limits.enable_position_limits
                      /\ Abs(AsSigned(positions_[<<order.strategy,
                                                   order.instrument>>])
                             + (IF order.side = "BUY" THEN order.quantity
                                ELSE 0 - order.quantity))
                            > limits.max_position_size
          [] k = 5 -> /\ limits.enable_exposure_limits
                      /\ order.quantity * order.price
                            > limits.max_notional_exposure
          [] k = 6 -> /\ limits.enable_loss_limits
                      /\ pnl.daily_pnl < limits.max_daily_loss
          [] k = 7 -> /\ limits.enable_loss_limits
                      /\ pnl.total_pnl < limits.max_total_loss
          [] k = 8 -> /\ limits.enable_loss_limits
                      /\ pnl.cooldown_until > now

\* C16: check_order returns the violation of the first failing check in the
\* order size, rate per minute, rate per day, position, exposure, daily
\* loss, total loss, cooldown, and no violation exactly when none of them
\* fails.
C16_FirstFailingCheck ==
    [][risk_call'.op = "check_order"
       => /\ risk_call'.result = APPROVED
             <=> \A k \in 1..8 :
                    ~CheckFails(k, risk_call'.arg, risk_call'.now)
          /\ \A k \in 1..8 :
                (/\ CheckFails(k, risk_call'.arg, risk_call'.now)
                 /\ \A j \in 1..(k - 1) :
                        ~CheckFails(j, risk_call'.arg, risk_call'.now))
                    => risk_call'.result = ViolationsInOrder[k]]_vars

\* check_order has rejected, for the position limit, an order that is over
\* the exposure limit too.
C16_Witness ==
    /\ risk_call.op = "check_order"
    /\ risk_call.result.result = "REJECTED_POSITION_LIMIT"
    /\ get_limits(risk_call.arg.strategy).enable_exposure_limits
    /\ risk_call.arg.quantity * risk_call.arg.price
           > get_limits(risk_call.arg.strategy).max_notional_exposure

\* C17: with rate limiting enabled and every submission of the strategy
\* recorded, check_order rejects an order that passes the size check with a
\* rate violation exactly when the strategy's submissions within the minute
\* of simulated time before the order's timestamp number
\* max_orders_per_minute or more, or its daily count is max_orders_per_day
\* or more.
C17_RateLimitInSimulatedTime ==
    [][LET order    == risk_call'.arg
           strategy == order.strategy
           limits   == get_limits(strategy)
           recent   == SelectSeq(submitted[strategy],
                                 LAMBDA t : t >= order.timestamp - Minute)
       IN  (/\ risk_call'.op = "check_order"
            /\ limits.enable_rate_limiting
            /\ ~CheckFails(1, order, risk_call'.now)
            /\ rate_limiting_[strategy].daily_orders
                   = Len(submitted[strategy]))
           => (risk_call'.result.result = "REJECTED_RATE_LIMIT"
               <=> \/ Len(recent) >= limits.max_orders_per_minute
                   \/ rate_limiting_[strategy].daily_orders
                          >= limits.max_orders_per_day)]_vars

\* C18: after a fill with a trade P&L below the significant-loss threshold
\* at simulated time T, check_order for the strategy returns a cooldown
\* violation for an order that passes every earlier check and is stamped
\* before T + loss_cooldown, and no cooldown violation for an order stamped
\* T + loss_cooldown or later; with no such fill there is no cooldown
\* violation.
C18_CooldownInSimulatedTime ==
    [][LET order    == risk_call'.arg
           strategy == order.strategy
       IN  (/\ risk_call'.op = "check_order"
            /\ get_limits(strategy).enable_loss_limits
            /\ \A k \in 1..7 : ~CheckFails(k, order, risk_call'.now))
           => (risk_call'.result.result = "REJECTED_COOLDOWN"
               <=> order.timestamp < cooldown_sim[strategy])]_vars

\* C19: for every (strategy, instrument) the position quantity equals the
\* sum of the pair's buy-fill quantities minus the sum of its sell-fill
\* quantities, also when that sum is negative.
C19_PositionIsSignedSum ==
    \A pair \in Pairs : positions_[pair] = fill_sum[pair]

\* C20: the switches and values applied to a strategy's orders and fills are
\* those of its own limits when it has an override and those of the global
\* limits otherwise: on_order_submitted records the submission exactly when
\* these limits enable rate limiting, on_fill starts a cooldown of their
\* loss_cooldown exactly when they enable loss limits and the trade P&L is
\* below the threshold, and check_order approves exactly when no check fails
\* under them.
C20_StrategyLimitsApplied ==
    [][LET strategy == risk_call'.arg.strategy
           limits   == IF strategy \in DOMAIN strategy_limits_
                       THEN strategy_limits_[strategy] ELSE limits_
       IN  /\ risk_call'.op = "on_order_submitted"
                => rate_limiting_'[strategy].daily_orders
                     = IF limits.enable_rate_limiting
                       THEN rate_limiting_[strategy].daily_orders + 1
                       ELSE rate_limiting_[strategy].daily_orders
           /\ risk_call'.op = "on_fill"
                => strategy_pnl_'[strategy].cooldown_until
                     = IF /\ limits.enable_loss_limits
                          /\ 0 - risk_call'.arg.commission
                                 < 0 - SignificantLoss
                       THEN risk_call'.now + limits.loss_cooldown
                       ELSE strategy_pnl_[strategy].cooldown_until
           /\ risk_call'.op = "check_order"
                => (risk_call'.result = APPROVED
                    <=> \A k \in 1..8 :
                           ~CheckFails(k, risk_call'.arg, risk_call'.now))
      ]_vars

\* C21: reset_daily_counters sets every strategy's daily order count and
\* daily P&L to zero and changes nothing else: total P&L, cooldown expiry,
\* positions, exposures, limits and the window of recent order timestamps
\* are as before the call.
C21_ResetDailyFrame ==
    [][risk_call'.op = "reset_daily_counters"
       => /\ \A s \in Strategies :
                /\ rate_limiting_'[s].daily_orders = 0
                /\ strategy_pnl_'[s].daily_pnl = 0
                /\ strategy_pnl_'[s].total_pnl = strategy_pnl_[s].total_pnl
                /\ strategy_pnl_'[s].cooldown_until
                       = strategy_pnl_[s].cooldown_until
                /\ rate_limiting_'[s].order_times
                       = rate_limiting_[s].order_times
          /\ UNCHANGED <<positions_, exposures_, limits_, strategy_limits_>>
      ]_vars

\* ----------------------------------------------- TickDataStore claims
\* C26: get_ticks_range(instrument, start, end) returns exactly the stored
\* ticks of the instrument with start <= timestamp <= end, in their stored
\* order, each tagged with that instrument, and the empty sequence for an
\* instrument without an entry or when start > end.
C26_RangeExact ==
    store_call.op = "get_ticks_range"
    => LET instrument == store_call.instrument
           start_time == store_call.start_time
           end_time   == store_call.end_time
       IN  IF instrument \notin DOMAIN data_ \/ start_time > end_time
           THEN store_call.result = <<>>
           ELSE LET within ==
                        SelectSeq(data_[instrument],
                                  LAMBDA row : /\ start_time <= row.timestamp
                                               /\ row.timestamp <= end_time)
                IN  store_call.result =
                        [k \in 1..Len(within) |->
                            MarketDataTick(within[k].timestamp, instrument,
                                           within[k].last_price)]

\* get_ticks_range has returned some but not all of a series, up to a tick
\* stamped with the end of the range.
C26_Witness ==
    /\ store_call.op = "get_ticks_range"
    /\ store_call.instrument \in DOMAIN data_
    /\ store_call.result # <<>>
    /\ Len(store_call.result) < Len(data_[store_call.instrument])
    /\ \E k \in 1..Len(store_call.result) :
          store_call.result[k].timestamp = store_call.end_time

\* The rows of before in non-decreasing timestamp order, rows of equal
\* timestamp in the order they have in before.
IsStableSortOf(after, before) ==
    /\ Len(after) = Len(before)
    /\ \E p \in Permutations(1..Len(before)) :
          /\ \A k \in 1..Len(before) : after[k] = before[p[k]]
          /\ \A a, b \in 1..Len(before) :
                a < b => \/ before[p[a]].timestamp < before[p[b]].timestamp
                         \/ /\ before[p[a]].timestamp = before[p[b]].timestamp
                            /\ p[a] < p[b]

\* C27: sort_by_timestamp leaves every series in non-decreasing timestamp
\* order with ticks of equal timestamp in their earlier relative order, and
\* a second sort_by_timestamp right after the first changes no series.
C27_SortStableIdempotent ==
    [][store_call'.op = "sort_by_timestamp"
       => /\ DOMAIN data_' = DOMAIN data_
          /\ \A i \in DOMAIN data_ : IsStableSortOf(data_'[i], data_[i])
          /\ store_call.op = "sort_by_timestamp" => data_' = data_]_vars

\* ---------------------------------------------- BacktestEngine claims
\* C22: the market events passed to a strategy's on_market_data during
\* run() have non-decreasing timestamps, whatever the order in which the
\* ticks were appended and whatever their instruments.
C22_ReplayInTimeOrder ==
    \A a, b \in 1..Len(received) :
        (a < b /\ received[a].strategy = received[b].strategy)
            => received[a].tick.timestamp <= received[b].tick.timestamp

\* C23: a strategy whose active flag is false receives no on_market_data
\* call during run(), and when run() returns without a stop() every active
\* strategy has received every tick of the store.
C23_PausedStrategiesSkipped ==
    /\ \A k \in 1..Len(received) : is_active_[received[k].strategy]
    /\ \A r \in 1..Len(runs) :
          (runs[r].engine = engines /\ ~runs[r].stopped /\ ~runs[r].aborted)
              => \A s \in 1..Len(strategies_), i \in DOMAIN data_ :
                   \A t \in 1..Len(data_[i]) :
                     is_active_[strategies_[s]]
                         => \E k \in 1..Len(runs[r].received) :
                               runs[r].received[k] =
                                   [strategy |-> strategies_[s],
                                    tick |-> get_all_ticks[i][t]]

\* C25: run_range(start, end) delivers to every strategy exactly the stored
\* ticks with start <= timestamp <= end: each of them is passed to
\* on_market_data during the call and no other tick is.
C25_RunRangeDelivers ==
    [][engine_step'.op = "run_range"
       => LET start_time == engine_step'.arg[1]
              end_time   == engine_step'.arg[2]
              during     == SubSeq(received', Len(received) + 1,
                                   Len(received'))
          IN  \A s \in 1..Len(strategies_), i \in DOMAIN data_ :
                 \A t \in 1..Len(data_[i]) :
                    (/\ start_time <= data_[i][t].timestamp
                     /\ data_[i][t].timestamp <= end_time)
                    <=> \E k \in 1..Len(during) :
                           during[k] = [strategy |-> strategies_[s],
                                        tick |-> get_all_ticks[i][t]]]_vars

\* C24: once stop() is called while run() executes, no tick begins to be
\* processed after it, and run() can go on to return without any further
\* call from outside, also when the engine is paused; outside run(),
\* is_running() is false.
C24_StopEndsRun ==
    /\ late_ticks = {}
    /\ (stop_called /\ run_pc # "idle") => ENABLED RunThread
    /\ run_pc = "idle" => ~is_running_

\* C30: two run() calls that replay the same ticks per instrument to the
\* same strategies in the same configuration, each on an engine that was
\* newly constructed or on one engine, and neither stopped nor aborted,
\* deliver the same sequence of ticks to the same strategies and leave the
\* same results.
C30_ReplayDeterministic ==
    \A a, b \in 1..Len(runs) :
        (/\ ~runs[a].stopped /\ ~runs[a].aborted
         /\ ~runs[b].stopped /\ ~runs[b].aborted
         /\ runs[a].data = runs[b].data
         /\ runs[a].strategies = runs[b].strategies
         /\ runs[a].active = runs[b].active)
            => /\ runs[a].received = runs[b].received
               /\ runs[a].results = runs[b].results


\* C28: the slippage that calculate_slippage returns, of either model and
\* for every input, is never positive, and it is -|rate * reference_price|:
\* with a zero avg_daily_volume -|base_rate * reference_price|, else with the
\* rate base + impact * (quantity / adv) of the linear model and
\* base + coefficient * sqrt(quantity / adv) of the square-root one.
C28_SlippageIsCost ==
    slippage_call.op = "calculate_slippage"
        => LET m      == slippage_model
               q      == slippage_call.quantity
               ref    == slippage_call.reference_price
               adv    == slippage_call.avg_daily_volume
               result == slippage_call.result
           IN  /\ result.den > 0
               /\ result.num <= 0
               /\ adv = 0 => result.num = (0 - Abs(m.base_rate_ * ref)) * result.den
               /\ (adv # 0 /\ m.class = "LinearSlippageModel")
                     => result.num * adv
                            = (0 - Abs((m.base_rate_ * adv + m.impact_rate_ * q)
                                        * ref)) * result.den
               /\ (adv # 0 /\ m.class = "SqrtSlippageModel")
                     => result.num * Sqrt(adv)
                            = (0 - Abs((m.base_rate_ * Sqrt(adv)
                                         + m.impact_coefficient_ * Sqrt(q))
                                        * ref)) * result.den


\* C29: on an OrderBook constructed with PRO_RATA or PRICE_SIZE_TIME,
\* execute_market_order and execute_limit_order match nothing: they return
\* no fill and leave the bids and the asks as they were.
C29_OtherAlgorithmsDoNotMatch ==
    [][(/\ matching_algo_ # "PRICE_TIME"
        /\ book_call'.op \in {"execute_market_order", "execute_limit_order"})
          => /\ book_call'.fills = <<>>
             /\ UNCHANGED <<bids_, asks_>>]_vars


\* C31: a callback that throws during advance_to is contained: the loop of
\* process_scheduled_events goes on under the lock with the time, the
\* pending events and the advance_to calls in progress as they were, and an
\* advance_to is only left by returning (or by rejecting a rewind).
C31_CallbackThrowContained ==
    [][/\ clock_step'.op = "callback_throws"
          => /\ clock_pc' = "loop"
             /\ mutex_'
             /\ UNCHANGED <<current_time_, scheduled_events_, advance_depth>>
       /\ advance_depth' < advance_depth => clock_step'.op = "return"]_vars


\* C32: the lock is not held while a callback runs, so each clock call a
\* callback may make is enabled inside it, and the lock is free whenever no
\* advance_to is running.
C32_LockReleasedInCallbacks ==
    /\ clock_pc = "callback" => ~mutex_
    /\ clock_pc = "idle" => ~mutex_ /\ advance_depth = 0
    /\ clock_pc = "callback"
          => /\ ENABLED CallbackAdvanceTo
             /\ ENABLED CallbackReturns
             /\ next_event_seq <= MaxEvents => ENABLED CallbackSchedule
             /\ next_event_seq <= MaxEvents => ENABLED CallbackScheduleDelay

\* A callback that runs inside an advance_to that a callback called.
C32_Witness ==
    /\ clock_pc = "callback"
    /\ advance_depth = 2
    /\ ~mutex_


C34_NestedCallCompletes ==
    /\ bus_step.op = "handler_calls" => bus_step.result = "completes"
    /\ \A th \in BusThreads : bus_pc[th] # "blocked"


\* C35: once stop() has cleared running_, it returns: while it has not, the
\* worker can take a step or has exited and the join returns; the worker is
\* never left blocked in cv_.wait with stop() waiting for it, and no event
\* is left in the queue when stop() has returned.
C35_StopReturns ==
    /\ main_call = "stop"
          => \/ ENABLED StopNotify
             \/ ENABLED StopJoin
             \/ ENABLED WorkerCheck
             \/ ENABLED WorkerWait
             \/ ENABLED DispatchLock
             \/ ENABLED InvokeHandler
             \/ ENABLED DispatchReturn
    /\ (bus_step.op = "stop_join") => event_queue_ = <<>>


\* C36: with position limits enabled, check_order returns the order-size
\* violation exactly when order.quantity > max_order_size; and for an order
\* within that size which the rate checks let through, it returns the
\* position violation exactly when the absolute value of the pair's signed
\* position (the buy fills minus the sell fills) plus the quantity of a buy,
\* or minus that of a sell, exceeds max_position_size.
C36_SizeAndPositionChecks ==
    [][(/\ risk_call'.op = "check_order"
        /\ get_limits(risk_call'.arg.strategy).enable_position_limits)
          => LET order  == risk_call'.arg
                 limits == get_limits(order.strategy)
                 result == risk_call'.result.result
                 after  == fill_sum[<<order.strategy, order.instrument>>]
                             + (IF order.side = "BUY" THEN order.quantity
                                ELSE 0 - order.quantity)
             IN  /\ result = "REJECTED_ORDER_SIZE"
                       <=> order.quantity > limits.max_order_size
                 /\ result = "REJECTED_POSITION_LIMIT"
                       => Abs(after) > limits.max_position_size
                 /\ (/\ order.quantity <= limits.max_order_size
                     /\ result # "REJECTED_RATE_LIMIT")
                       => (result = "REJECTED_POSITION_LIMIT"
                             <=> Abs(after) > limits.max_position_size)]_vars

\* A sell on a short position has been rejected for the position limit, and
\* the position is held as a wrapped unsigned quantity.
C36_Witness ==
    /\ risk_call.op = "check_order"
    /\ risk_call.result.result = "REJECTED_POSITION_LIMIT"
    /\ risk_call.arg.side = "SELL"
    /\ fill_sum[<<risk_call.arg.strategy, risk_call.arg.instrument>>] < 0
    /\ positions_[<<risk_call.arg.strategy, risk_call.arg.instrument>>]
          > VolumeModulus \div 2


\* C36 as worded, without the rate checks that sit between the two: every
\* order within max_order_size is rejected for the position limit exactly
\* when the position after it would exceed max_position_size.
C36_PositionCheckIsNext ==
    [][(/\ risk_call'.op = "check_order"
        /\ get_limits(risk_call'.arg.strategy).enable_position_limits
        /\ risk_call'.arg.quantity
              <= get_limits(risk_call'.arg.strategy).max_order_size)
          => LET order  == risk_call'.arg
                 limits == get_limits(order.strategy)
                 after  == fill_sum[<<order.strategy, order.instrument>>]
                             + (IF order.side = "BUY" THEN order.quantity
                                ELSE 0 - order.quantity)
             IN  risk_call'.result.result = "REJECTED_POSITION_LIMIT"
                    <=> Abs(after) > limits.max_position_size]_vars


\* The notional all pairs hold together.
PortfolioExposure ==
    LET RECURSIVE Total(_)
        Total(keys) ==
            IF keys = {} THEN 0
            ELSE LET key == CHOOSE k \in keys : TRUE
                 IN  exposures_[key] + Total(keys \ {key})
    IN  Total(Pairs)

\* C37: with exposure limits enabled, check_order does not approve an order
\* whose notional, added to the exposure its strategy has accumulated in the
\* instrument, exceeds max_notional_exposure, or added to the exposure of
\* all pairs exceeds max_portfolio_exposure.
C37_ExposureCapsHold ==
    [][(/\ risk_call'.op = "check_order"
        /\ get_limits(risk_call'.arg.strategy).enable_exposure_limits)
          => LET order    == risk_call'.arg
                 limits   == get_limits(order.strategy)
                 notional == order.quantity * order.price
                 key      == <<order.strategy, order.instrument>>
             IN  (\/ exposures_[key] + notional > limits.max_notional_exposure
                  \/ PortfolioExposure + notional
                         > limits.max_portfolio_exposure)
                    => risk_call'.result.result # "APPROVED"]_vars


\* C38: execute_market_order and execute_limit_order lower the total volume
\* of the opposite side by exactly the sum of the fills they return and add
\* no level and no entry there; on the order's own side a market order
\* changes nothing, and a limit order changes only the level at order.price,
\* by its residual.
C38_MatchingFrame ==
    [][
        book_call'.op \in {"execute_market_order", "execute_limit_order"} =>
            LET o    == book_call'.order
                sum  == SumQty(book_call'.fills)
                own  == OwnSide(bids_, asks_, o)
                own2 == OwnSide(bids_', asks_', o)
                opp  == OppositeSide(bids_, asks_, o)
                opp2 == OppositeSide(bids_', asks_', o)
            IN /\ TotalVolume(opp2) = TotalVolume(opp) - sum
               /\ DOMAIN opp2 \subseteq DOMAIN opp
               /\ \A p \in DOMAIN opp2 :
                    /\ opp2[p].total_volume <= opp[p].total_volume
                    /\ opp2[p].orders = opp[p].orders
               /\ book_call'.op = "execute_market_order" => own2 = own
               /\ book_call'.op = "execute_limit_order" =>
                    /\ \A p \in (DOMAIN own \cup DOMAIN own2) \ {o.price} :
                          /\ p \in DOMAIN own
                          /\ p \in DOMAIN own2
                          /\ own2[p] = own[p]
                    /\ VolumeAt(own2, o.price)
                          = VolumeAt(own, o.price) + (o.quantity - sum)
    ]_vars

\* A market order was filled in part by the opposite side, which it
\* emptied, while its own side holds resting orders.
C38_Witness ==
    /\ book_call.op = "execute_market_order"
    /\ SumQty(book_call.fills) > 0
    /\ SumQty(book_call.fills) < book_call.order.quantity
    /\ DOMAIN OppositeSide(bids_, asks_, book_call.order) = {}
    /\ DOMAIN OwnSide(bids_, asks_, book_call.order) # {}


\* The number of times tick occurs in the sequence seq.
Occurrences(seq, tick) == Cardinality({k \in 1..Len(seq) : seq[k] = tick})

\* The ticks of an instrument as get_tick_at reads them back, in index
\* order.
ReadBack(instrument) ==
    [k \in 1..TickData_size(columns[instrument]) |->
        get_tick_at(instrument, k)]

\* C39: every instrument's columns have the same length, and the ticks read
\* back through get_tick_at are, as a multiset of whole ticks, the ticks
\* appended for that instrument: each appended tick is read back as often
\* as it was appended, and nothing else is read back.
C39_ColumnsAligned ==
    /\ DOMAIN columns = DOMAIN appended
    /\ \A i \in DOMAIN columns :
          /\ Len(columns[i].last_prices) = Len(columns[i].timestamps)
          /\ Len(columns[i].date) = Len(columns[i].timestamps)
          /\ Len(ReadBack(i)) = Len(appended[i])
          /\ \A k \in 1..Len(appended[i]) :
                Occurrences(ReadBack(i), appended[i][k])
                    = Occurrences(appended[i], appended[i][k])

\* sort_by_timestamp has moved the last of three rows, which differ in
\* every column, to the front.
C39_Witness ==
    /\ column_call.op = "sort_by_timestamp"
    /\ \E i \in DOMAIN columns :
          /\ TickData_size(columns[i]) = 3
          /\ get_tick_at(i, 1) = appended[i][3]
          /\ appended[i][3].timestamp < appended[i][1].timestamp
          /\ appended[i][3].date # appended[i][1].date
          /\ appended[i][3].last_price # appended[i][1].last_price


\* The orders of executed for the instrument, in order.
OrdersFor(instrument) ==
    SelectSeq(executed, LAMBDA order : order.instrument = instrument)

\* C40: for each instrument the orders the SMAStrategy has executed are
\* BUY, SELL, BUY, ... in turn, starting with BUY, each of quantity 1; its
\* position in the instrument is 0 after an even number of them and 1 after
\* an odd number, so the unsigned quantity has never gone below zero; its
\* trade count is the number of orders it has executed, and their ids are
\* strictly increasing.
C40_SmaAlternates ==
    /\ \A instrument \in SmaInstruments :
          LET orders == OrdersFor(instrument)
          IN  /\ \A k \in 1..Len(orders) :
                    /\ orders[k].side = (IF k % 2 = 1 THEN "BUY" ELSE "SELL")
                    /\ orders[k].quantity = 1
              /\ QuantityOf(instrument) = Len(orders) % 2
              /\ QuantityOf(instrument) \in {0, 1}
    /\ trade_count_ = Len(executed)
    /\ \A k \in 1..(Len(executed) - 1) : executed[k].id < executed[k + 1].id

\* The strategy has bought, sold and bought again in one instrument, the
\* other strategy having taken an order id in between.
C40_Witness ==
    /\ \E instrument \in SmaInstruments : Len(OrdersFor(instrument)) = 3
    /\ \E k \in 1..(Len(executed) - 1) :
          executed[k + 1].id > executed[k].id + 1
    /\ sma_call.side = "BUY"

====
